---- MODULE Spec2Model ----
(***************************************************************************)
(* The rebuild pipeline of racealpha-rebuild-worker: rebuild_runner.py     *)
(* (status record, run_phase, run_rebuild, swap_tables) driven either by   *)
(* the web process (web_ui.py: /api/rebuild/start spawns a thread,          *)
(* /api/rebuild/swap runs on the event loop) or by the command line        *)
(* (python rebuild_runner.py rebuild | swap); and the pull and push jobs of *)
(* the web process (web_ui.py: /api/sync, /api/push, run_sync, run_push).  *)
(*                                                                         *)
(* One step of a thread is one database statement or one write of a key of *)
(* the _status dictionary: nothing in the code makes a longer stretch      *)
(* atomic (there is no lock, and DuckDB runs every execute() in its own    *)
(* autocommit transaction).                                                *)
(***************************************************************************)
EXTENDS Integers, Sequences, FiniteSets, TLC

VARIABLES
    status,     \* rebuild_runner._status, the dictionary the global names
    db,         \* the DuckDB catalog: table name -> table
    th,         \* the threads that run run_rebuild: position and locals
    nstarted,   \* threads created so far by start_rebuild
    response,   \* body of the last answer of POST /api/rebuild/start
    sw,         \* the call of swap_tables in progress, and its outcome
    scripts,    \* the files of rebuild/: phase number -> statements of the script
    sync_status,   \* web_ui.sync_status
    push_status,   \* web_ui.push_status
    sync_threads,  \* the threads that run run_sync: position and locals
    push_threads,  \* the threads that run run_push: position and locals
    sync_http,     \* POST /api/sync: handlers waiting for their body, threads started, last answer
    push_http,     \* POST /api/push: the same
    sql_text,      \* the script text given to split_sql_statements
    split_out,     \* what split_sql_statements returned for it
    resplit_out,   \* what it returned for its own statements joined again
    df,            \* the local race_training_dataset as push_table fetches it
    pg,            \* race_training_dataset at the destination: columns and committed rows
    pt,            \* the call of push_table in progress: position and locals
    npushes,       \* calls of push_table so far
    fx,            \* the run of fix_all_columns.py in progress: position and names
    pl,            \* the call of pull_table in progress: position and locals
    gc,            \* a call of guess_column_type: its arguments and what it returned
    elo_rebuild_status,  \* web_ui.elo_rebuild_status
    elo_threads,         \* the threads that run run_elo_rebuild: position and locals
    elo_http,            \* POST /api/elo/rebuild: threads started, last answer
    snapshot             \* the dictionary a caller of get_status holds

\* The rebuild pipeline
rebuildVars == <<status, db, th, nstarted, response, sw, scripts>>
\* The pull and push jobs of the web process
jobVars == <<sync_status, push_status, sync_threads, push_threads, sync_http, push_http>>
\* The statement splitter
splitVars == <<sql_text, split_out, resplit_out>>
\* pull_table
pullVars == <<pl>>
\* guess_column_type
guessVars == <<gc>>
\* The ELO rebuild job of the web process
eloVars == <<elo_rebuild_status, elo_threads, elo_http>>
\* A reader of the rebuild status
snapVars == <<snapshot>>
\* push_table and fix_all_columns.py
transferVars == <<df, pg, pt, npushes, fx>>
\* What the steps of the rebuild pipeline leave alone
others == <<jobVars, splitVars, transferVars, pullVars, guessVars, eloVars, snapVars>>
\* The same without the reader's dictionary, for the steps that append to a list it may hold
othersButSnapshot == <<jobVars, splitVars, transferVars, pullVars, guessVars, eloVars>>
\* What the steps of the pull and push jobs leave alone, their own variables apart
notJobs == <<rebuildVars, splitVars, transferVars, pullVars, guessVars, eloVars, snapVars>>
\* What the steps of the splitter leave alone
notSplit == <<rebuildVars, jobVars, transferVars, pullVars, guessVars, eloVars, snapVars>>
\* What the steps of push_table and fix_all_columns.py leave alone
notTransfer == <<rebuildVars, jobVars, splitVars, pullVars, guessVars, eloVars, snapVars>>
\* What the steps of pull_table leave alone, the catalog apart
notPull == <<status, th, nstarted, response, sw, scripts, jobVars, splitVars, transferVars, guessVars, eloVars, snapVars>>

vars == <<rebuildVars, jobVars, splitVars, transferVars, pullVars, guessVars, eloVars, snapVars>>

----------------------------------------------------------------------------
\* Bounds of the model

\* start requests that get a thread, in the web process
MaxStarts == 2
\* statements in the three phase scripts together, for a job of the web process
MaxStmts == 1
\* statements in the three phase scripts together, for a job of the command line
MaxStmtsCli == 3
\* row counts are counted up to this many
MaxRows == 2
\* start requests for a pull or a push that pass the test of the running flag
MaxJobStarts == 2
\* pieces in a script text given to split_sql_statements, of all the pieces
MaxTextLen == 5
\* the same, of the pieces that exercise comments and literals
MaxQuotedLen == 6
\* Calls of push_table, one after another
MaxPushes == 2
\* Rows of the local table
MaxPushRows == 3
\* Rows of a chunk of push_table: 30_000 in app.py:364, here a size that
\* makes a push of MaxPushRows rows take a full chunk and a shorter one
CHUNK_SIZE == 2
\* Runs of fix_all_columns.py
MaxFixRuns == 2
\* Calls of pull_table, one after another
MaxPulls == 1
\* Clauses of one ALTER TABLE of fix_all_columns.py: 20 in line 182, here a
\* size that makes three missing columns take two statements
batch_size == 2

----------------------------------------------------------------------------
\* Values

None == <<>>
Some(x) == <<x>>

\* datetime.now().isoformat(): some text, never None
now == "2026-02-05T23:51:00"

Min(a, b) == IF a < b THEN a ELSE b

ProdTable == "race_training_dataset"
NewTable == "race_training_dataset_new"
OldTable == "race_training_dataset_old"
ResultsTable == "race_results"
RacesTable == "races"

TableNames == {ResultsTable, RacesTable, ProdTable, NewTable, OldTable}

\* rebuild_runner.py:202
required == <<ResultsTable, RacesTable, ProdTable>>

\* rebuild_runner.py:19-35: 33 names in the source, two of them here: one that
\* production already has after an earlier swap, one that it does not have.
INTERMEDIATE_COLUMNS == <<"position_800m", "speed_figure">>

\* rebuild_runner.py:37-41
PHASES ==
    << [file |-> "phase1_base_career.sql", name |-> "Base Insert + Career Stats"],
       [file |-> "phase2_features.sql", name |-> "Advanced Features & Interactions"],
       [file |-> "phase3_validate_clean.sql", name |-> "Validation + Leakage Removal"] >>

Threads == 1..MaxStarts

\* A table of the catalog. origin and job tell whose data it holds: a table
\* keeps them through a rename.
NoTable == [exists |-> FALSE, origin |-> "", job |-> 0, rows |-> 0, cols |-> {}]
Table(origin, job, rows, cols) ==
    [exists |-> TRUE, origin |-> origin, job |-> job, rows |-> rows, cols |-> cols]

BaseCols == {"race_id", "final_position"}

\* The catalogs a process can find when it starts: after a first pull
\* (app.pull_table creates the TABLES), after an earlier rebuild and swap
\* (a shadow and a backup exist; the shadow holds a column of its own that
\* production never had), and with a required table missing.
PulledDb ==
    [n \in TableNames |->
        IF n \in {ResultsTable, RacesTable, ProdTable} THEN Table(n, 0, 1, BaseCols) ELSE NoTable]
SwappedDb ==
    [n \in TableNames |->
        CASE n = ProdTable -> Table(ProdTable, 0, 1, BaseCols \cup {"position_800m"})
          [] n = NewTable -> Table(NewTable, 0, 1, BaseCols \cup {"speed_rating"})
          [] n = OldTable -> Table(OldTable, 0, 1, BaseCols)
          [] OTHER -> Table(n, 0, 1, BaseCols)]
PartialDb == [PulledDb EXCEPT ![RacesTable] = NoTable]

InitDbs == {PulledDb, SwappedDb, PartialDb}

\* Messages of the exceptions the code raises or meets
E_DNE == "Catalog Error: does not exist"
E_EXISTS == "Catalog Error: already exists"
E_SQL == "Error: statement failed"
E_CONNECT == "IO Error: could not open database"
E_MISSING == "Missing required tables"
E_NOFILE == "SQL file not found"
E_EMPTY == "race_training_dataset_new is empty - cannot swap!"

\* rebuild_runner.py:249: f"Fatal error in base insert: {fatal_errors[0]['error']}"
FatalMsg(m) ==
    CASE m = E_DNE -> "Fatal error in base insert: Catalog Error: does not exist"
      [] m = E_EXISTS -> "Fatal error in base insert: Catalog Error: already exists"
      [] OTHER -> "Fatal error in base insert: Error: statement failed"

\* "does not exist" in error_msg.lower()  (rebuild_runner.py:157)
ContainsDoesNotExist(m) == m = E_DNE

\* A statement of a phase script, as far as the code looks at it: whether its
\* text holds DROP COLUMN (rebuild_runner.py:157) and whether its first 200
\* characters hold INSERT (rebuild_runner.py:162, 247).
StmtKinds == {"INSERT", "DROP COLUMN", "UPDATE"}
HasDropColumn(kind) == kind = "DROP COLUMN"
PreviewHasInsert(kind) == kind = "INSERT"

\* The scripts the three files can hold: up to max statements in all
SeqsOf(S, n) == UNION {[1..m -> S] : m \in 0..n}
ScriptSets(max) ==
    {f \in [1..Len(PHASES) -> SeqsOf(StmtKinds, max)] :
        Len(f[1]) + Len(f[2]) + Len(f[3]) <= max}

\* The column a DROP COLUMN statement of the scripts removes
DropTarget == "position_800m"

----------------------------------------------------------------------------
\* rebuild_runner.py:63-77

FreshStatus ==
    [state |-> "idle",
     current_phase |-> 0,
     total_phases |-> Len(PHASES),
     current_phase_name |-> "",
     started_at |-> None,
     completed_at |-> None,
     error |-> None,
     phase_results |-> <<>>,
     row_count |-> 0,
     col_count |-> 0]

\* rebuild_runner.py:58-60  _status.copy(): a new dictionary with the values
\* of _status at the call. The strings and numbers among them are immutable;
\* the list under "phase_results" is the list object _status holds.
get_status == status

\* No dictionary obtained. list names the list object under "phase_results":
\* 0 is the list of the module-level _status (rebuild_runner.py:44-55) and
\* each reset_status() makes the next; status is what the holder of the
\* dictionary reads in it.
NoSnapshot == [taken |-> FALSE, list |-> 0, status |-> FreshStatus]

\* The locals of a thread that has not started or has returned. log lists what
\* the thread has executed: phase, statement index, and the statement and its
\* outcome as the database gave it. seen is the number of threads that had been
\* started when the thread ended.
IdleThread ==
    [pc |-> "none", existing |-> {}, k |-> 0, idx |-> 0,
     n |-> 0, i |-> 0, completed |-> 0, errors |-> <<>>, exc |-> "",
     rows |-> 0, ncols |-> 0, skip |-> {}, log |-> <<>>, seen |-> 0]

\* No call of swap_tables yet. moved is the table the first rename moved away.
SwapIdle == [pc |-> "idle", result |-> "none", moved |-> NoTable]

----------------------------------------------------------------------------
\* Helpers of the thread steps

At(t, p) == th[t].pc = p
Set(t, r) == th' = [th EXCEPT ![t] = r]
Goto(t, p) == [th[t] EXCEPT !.pc = p]

\* An exception inside the try of run_rebuild: control goes to line 308
Raise(t, msg) ==
    [IdleThread EXCEPT !.pc = "except_state", !.exc = msg, !.log = th[t].log,
                       !.skip = th[t].skip]

SetStatus(key, v) == status' = [status EXCEPT ![key] = v]

\* The list object _status["phase_results"] names: reset_status() has made a
\* new one for every thread that is past its call
CurrentList == Cardinality({t \in Threads : th[t].pc \notin {"none", "reset"}})

\* _status["phase_results"].append(result) with a copy of the list for every reader
append_to_copied_list(result) ==
    /\ SetStatus("phase_results", Append(status.phase_results, result))
    /\ UNCHANGED snapshot

\* rebuild_runner.py:235, 243  _status["phase_results"].append(result): the
\* list grows in place, for every dictionary that holds it
append_to_list(result) ==
    /\ SetStatus("phase_results", Append(status.phase_results, result))
    /\ snapshot' = IF snapshot.taken /\ snapshot.list = CurrentList
                   THEN [snapshot EXCEPT !.status.phase_results = Append(@, result)]
                   ELSE snapshot

\* tables = [row[0] for row in con.execute("SHOW TABLES").fetchall()]
ShowTables == {n \in TableNames : db[n].exists}

\* missing = [t for t in required if t not in tables]   (rebuild_runner.py:203)
Missing(tables) == SelectSeq(required, LAMBDA n : n \notin tables)

\* fatal_errors = [e for e in result["errors"] if "INSERT" in e.get("sql_preview", "").upper()]
fatal_errors(errors) == SelectSeq(errors, LAMBDA e : PreviewHasInsert(e.sql_preview))

\* The dictionary run_phase returns (rebuild_runner.py:167-174)
PhaseResult(idx, n, completed, errors) ==
    [phase |-> idx, name |-> PHASES[idx].name, statements_total |-> n,
     statements_completed |-> completed, errors |-> errors, skipped |-> FALSE]

\* The dictionary of a phase that ran no statement, for a skipped phase
SkippedResult_as_run(idx) ==
    [phase |-> idx, name |-> PHASES[idx].name, statements_total |-> 0,
     statements_completed |-> 0, errors |-> <<>>, skipped |-> FALSE]

\* The dictionary appended for a skipped phase (rebuild_runner.py:235-239)
SkippedResult(idx) ==
    [phase |-> idx, name |-> PHASES[idx].name, statements_total |-> 0,
     statements_completed |-> 0, errors |-> <<>>, skipped |-> TRUE]

\* AfterPhase that steps over the phase that follows
AfterPhase_skipping(r, idx) ==
    IF idx + 1 < Len(PHASES)
    THEN [r EXCEPT !.pc = "phase", !.idx = idx + 2, !.n = 0, !.i = 0,
                   !.completed = 0, !.errors = <<>>]
    ELSE [r EXCEPT !.pc = "count_rows", !.idx = 0, !.n = 0, !.i = 0,
                   !.completed = 0, !.errors = <<>>]

\* Where the for loop of run_rebuild goes after phase idx
AfterPhase(r, idx) ==
    IF idx < Len(PHASES)
    THEN [r EXCEPT !.pc = "phase", !.idx = idx + 1, !.n = 0, !.i = 0,
                   !.completed = 0, !.errors = <<>>]
    ELSE [r EXCEPT !.pc = "count_rows", !.idx = 0, !.n = 0, !.i = 0,
                   !.completed = 0, !.errors = <<>>]

----------------------------------------------------------------------------
\* run_rebuild, one step per status write or database statement

\* rebuild_runner.py:187  reset_status()
reset_status(t) ==
    /\ At(t, "reset")
    /\ status' = FreshStatus
    /\ Set(t, Goto(t, "set_running"))
    /\ UNCHANGED <<db, nstarted, response, sw, scripts, others>>

\* rebuild_runner.py:188  _status["state"] = "running"
set_running(t) ==
    /\ At(t, "set_running")
    /\ SetStatus("state", "running")
    /\ Set(t, Goto(t, "set_started_at"))
    /\ UNCHANGED <<db, nstarted, response, sw, scripts, others>>

\* rebuild_runner.py:189  _status["started_at"] = datetime.now().isoformat()
set_started_at(t) ==
    /\ At(t, "set_started_at")
    /\ SetStatus("started_at", Some(now))
    /\ Set(t, Goto(t, "connect"))
    /\ UNCHANGED <<db, nstarted, response, sw, scripts, others>>

\* connect without the check of the required tables
connect_unchecked(t) ==
    /\ At(t, "connect")
    /\ \/ Set(t, Raise(t, E_CONNECT))
       \/ Set(t, Goto(t, IF NewTable \in ShowTables THEN "drop_new" ELSE "create_new"))
    /\ UNCHANGED <<status, db, nstarted, response, sw, scripts, others>>

\* rebuild_runner.py:198-205  connect, SHOW TABLES, the check of the required tables
connect(t) ==
    /\ At(t, "connect")
    /\ \/ Set(t, Raise(t, E_CONNECT))
       \/ LET tables == ShowTables IN
          IF Missing(tables) # <<>>
          THEN Set(t, Raise(t, E_MISSING))
          ELSE Set(t, Goto(t, IF NewTable \in tables THEN "drop_new" ELSE "create_new"))
    /\ UNCHANGED <<status, db, nstarted, response, sw, scripts, others>>

\* rebuild_runner.py:208-209  DROP TABLE race_training_dataset_new
drop_new(t) ==
    /\ At(t, "drop_new")
    /\ IF db[NewTable].exists
       THEN /\ db' = [db EXCEPT ![NewTable] = NoTable]
            /\ Set(t, Goto(t, "create_new"))
       ELSE /\ Set(t, Raise(t, E_DNE))
            /\ UNCHANGED db
    /\ UNCHANGED <<status, nstarted, response, sw, scripts, others>>

\* create_new without WHERE 1=0: the rows of production come along
create_new_with_rows(t) ==
    /\ At(t, "create_new")
    /\ IF ~db[ProdTable].exists
       THEN Set(t, Raise(t, E_DNE)) /\ UNCHANGED db
       ELSE IF db[NewTable].exists
       THEN Set(t, Raise(t, E_EXISTS)) /\ UNCHANGED db
       ELSE /\ db' = [db EXCEPT ![NewTable] =
                        Table("rebuild", t, db[ProdTable].rows, db[ProdTable].cols)]
            /\ Set(t, Goto(t, "describe"))
    /\ UNCHANGED <<status, nstarted, response, sw, scripts, others>>

\* rebuild_runner.py:210  CREATE TABLE race_training_dataset_new AS SELECT * FROM race_training_dataset WHERE 1=0
create_new(t) ==
    /\ At(t, "create_new")
    /\ IF ~db[ProdTable].exists
       THEN Set(t, Raise(t, E_DNE)) /\ UNCHANGED db
       ELSE IF db[NewTable].exists
       THEN Set(t, Raise(t, E_EXISTS)) /\ UNCHANGED db
       ELSE /\ db' = [db EXCEPT ![NewTable] = Table("rebuild", t, 0, db[ProdTable].cols)]
            /\ Set(t, Goto(t, "describe"))
    /\ UNCHANGED <<status, nstarted, response, sw, scripts, others>>

\* rebuild_runner.py:217  existing_cols = set(... DESCRIBE race_training_dataset_new ...)
describe(t) ==
    /\ At(t, "describe")
    /\ IF db[NewTable].exists
       THEN Set(t, [th[t] EXCEPT !.pc = "add_column", !.existing = db[NewTable].cols, !.k = 1])
       ELSE Set(t, Raise(t, E_DNE))
    /\ UNCHANGED <<status, db, nstarted, response, sw, scripts, others>>

\* rebuild_runner.py:219-222  one turn of the loop over INTERMEDIATE_COLUMNS
add_column(t) ==
    /\ At(t, "add_column")
    /\ LET r == th[t]
           col == INTERMEDIATE_COLUMNS[r.k]
           next == IF r.k < Len(INTERMEDIATE_COLUMNS)
                   THEN [r EXCEPT !.k = r.k + 1]
                   ELSE [r EXCEPT !.pc = "phase", !.idx = 1, !.k = 0, !.existing = {}]
       IN IF col \in r.existing
          THEN Set(t, next) /\ UNCHANGED db
          ELSE IF ~db[NewTable].exists
          THEN Set(t, Raise(t, E_DNE)) /\ UNCHANGED db
          ELSE IF col \in db[NewTable].cols
          THEN Set(t, Raise(t, E_EXISTS)) /\ UNCHANGED db
          ELSE /\ db' = [db EXCEPT ![NewTable].cols = @ \cup {col}]
               /\ Set(t, next)
    /\ UNCHANGED <<status, nstarted, response, sw, scripts, others>>

\* What a statement of a phase script that succeeds does to the catalog
Effect(kind) ==
    CASE kind = "INSERT" ->
            [db EXCEPT ![NewTable].rows = Min(@ + 1, MaxRows)]
      [] kind = "DROP COLUMN" ->
            [db EXCEPT ![NewTable].cols = @ \ {DropTarget}]
      [] OTHER -> db

\* rebuild_runner.py:232-240 and 122-136: the skip test of run_rebuild, then
\* run_phase up to its first write of the status
phase(t) ==
    /\ At(t, "phase")
    /\ LET r == th[t] IN
       IF r.idx \in r.skip
       THEN /\ append_to_list(SkippedResult(r.idx))
            /\ Set(t, AfterPhase(r, r.idx))
       ELSE \/ /\ Set(t, Raise(t, E_NOFILE))
               /\ UNCHANGED <<status, snapshot>>
            \/ /\ SetStatus("current_phase", r.idx)
               /\ Set(t, [r EXCEPT !.pc = "phase_name", !.n = Len(scripts[r.idx])])
               /\ UNCHANGED snapshot
    /\ UNCHANGED <<db, nstarted, response, sw, scripts, othersButSnapshot>>

\* phase_name that empties the list of phase results as well
phase_name_clearing_results(t) ==
    /\ At(t, "phase_name")
    /\ status' = [status EXCEPT !.current_phase_name = PHASES[th[t].idx].name,
                                !.phase_results = <<>>]
    /\ Set(t, [th[t] EXCEPT !.pc = IF th[t].n = 0 THEN "append" ELSE "stmt",
                            !.i = 1, !.completed = 0, !.errors = <<>>])
    /\ UNCHANGED <<db, nstarted, response, sw, scripts, others>>

\* rebuild_runner.py:137  _status["current_phase_name"] = phase["name"]
phase_name(t) ==
    /\ At(t, "phase_name")
    /\ SetStatus("current_phase_name", PHASES[th[t].idx].name)
    /\ Set(t, [th[t] EXCEPT !.pc = IF th[t].n = 0 THEN "append" ELSE "stmt",
                            !.i = 1, !.completed = 0, !.errors = <<>>])
    /\ UNCHANGED <<db, nstarted, response, sw, scripts, others>>

\* on_error that takes 'does not exist' for success whatever the statement
on_error_any_statement(r, kind, msg) ==
    IF ContainsDoesNotExist(msg)
    THEN [r EXCEPT !.completed = @ + 1]
    ELSE [r EXCEPT !.errors = Append(@, [statement |-> r.i, error |-> msg, sql_preview |-> kind])]

\* on_error that counts the failed statement as completed and records it too
on_error_counted(r, kind, msg) ==
    [r EXCEPT !.completed = @ + 1,
              !.errors = Append(@, [statement |-> r.i, error |-> msg, sql_preview |-> kind])]

\* on_error with the index of enumerate() as it is, counted from 0
on_error_zero_based(r, kind, msg) ==
    IF ContainsDoesNotExist(msg) /\ HasDropColumn(kind)
    THEN [r EXCEPT !.completed = @ + 1]
    ELSE [r EXCEPT !.errors = Append(@, [statement |-> r.i - 1, error |-> msg, sql_preview |-> kind])]

\* rebuild_runner.py:154-164: the except clause of the statement loop
on_error(r, kind, msg) ==
    IF ContainsDoesNotExist(msg) /\ HasDropColumn(kind)
    THEN [r EXCEPT !.completed = @ + 1]
    ELSE [r EXCEPT !.errors = Append(@, [statement |-> r.i, error |-> msg, sql_preview |-> kind])]

\* stmt that leaves the loop at the first statement that raises
stmt_stop_on_error(t) ==
    /\ At(t, "stmt")
    /\ \E out \in {"ok", E_DNE, E_SQL} :
        LET r == th[t]
            kind == scripts[r.idx][r.i]
            after == IF out = "ok" THEN [r EXCEPT !.completed = @ + 1]
                     ELSE on_error(r, kind, out)
        IN /\ (out = "ok" /\ kind # "UPDATE") => db[NewTable].exists
           /\ db' = IF out = "ok" THEN Effect(kind) ELSE db
           /\ Set(t, [after EXCEPT
                        !.log = Append(@, [phase |-> r.idx, stmt |-> r.i, kind |-> kind, out |-> out]),
                        !.i = r.i + 1,
                        !.pc = IF r.i < r.n /\ out = "ok" THEN "stmt" ELSE "append"])
    /\ UNCHANGED <<status, nstarted, response, sw, scripts, others>>

\* rebuild_runner.py:143-164: one turn of the statement loop of run_phase
stmt(t) ==
    /\ At(t, "stmt")
    /\ \E out \in {"ok", E_DNE, E_SQL} :
        LET r == th[t]
            kind == scripts[r.idx][r.i]
            after == IF out = "ok" THEN [r EXCEPT !.completed = @ + 1]
                     ELSE on_error(r, kind, out)
        IN /\ (out = "ok" /\ kind # "UPDATE") => db[NewTable].exists
           /\ db' = IF out = "ok" THEN Effect(kind) ELSE db
           /\ Set(t, [after EXCEPT
                        !.log = Append(@, [phase |-> r.idx, stmt |-> r.i, kind |-> kind, out |-> out]),
                        !.i = r.i + 1,
                        !.pc = IF r.i < r.n THEN "stmt" ELSE "append"])
    /\ UNCHANGED <<status, nstarted, response, sw, scripts, others>>

\* is_fatal that looks at the wrong phase
is_fatal_phase2(idx, errors) == idx = 2 /\ errors # <<>> /\ fatal_errors(errors) # <<>>

\* rebuild_runner.py:246-249: the escalation test of run_rebuild
is_fatal(idx, errors) == idx = 1 /\ errors # <<>> /\ fatal_errors(errors) # <<>>

\* rebuild_runner.py:167-181 and 243-249: run_phase returns, run_rebuild appends
\* the result and decides whether to go on
append(t) ==
    /\ At(t, "append")
    /\ LET r == th[t]
           result == PhaseResult(r.idx, r.n, r.completed, r.errors)
       IN /\ append_to_list(result)
          /\ IF is_fatal(r.idx, result.errors)
             THEN Set(t, Raise(t, FatalMsg(fatal_errors(result.errors)[1].error)))
             ELSE Set(t, AfterPhase(r, r.idx))
    /\ UNCHANGED <<db, nstarted, response, sw, scripts, othersButSnapshot>>

\* rebuild_runner.py:252  SELECT COUNT(*) FROM race_training_dataset_new
count_rows(t) ==
    /\ At(t, "count_rows")
    /\ IF db[NewTable].exists
       THEN Set(t, [th[t] EXCEPT !.pc = "count_cols", !.rows = db[NewTable].rows])
       ELSE Set(t, Raise(t, E_DNE))
    /\ UNCHANGED <<status, db, nstarted, response, sw, scripts, others>>

\* rebuild_runner.py:253  len(con.execute("DESCRIBE race_training_dataset_new").fetchall())
count_cols(t) ==
    /\ At(t, "count_cols")
    /\ IF db[NewTable].exists
       THEN Set(t, [th[t] EXCEPT !.pc = "set_row_count", !.ncols = Cardinality(db[NewTable].cols)])
       ELSE Set(t, Raise(t, E_DNE))
    /\ UNCHANGED <<status, db, nstarted, response, sw, scripts, others>>

\* rebuild_runner.py:254  _status["row_count"] = row_count
set_row_count(t) ==
    /\ At(t, "set_row_count")
    /\ SetStatus("row_count", th[t].rows)
    /\ Set(t, [th[t] EXCEPT !.pc = "set_col_count", !.rows = 0])
    /\ UNCHANGED <<db, nstarted, response, sw, scripts, others>>

\* rebuild_runner.py:255  _status["col_count"] = col_count
\* (the validation queries of lines 267-302 only read and print, and catch
\* their own exceptions)
set_col_count(t) ==
    /\ At(t, "set_col_count")
    /\ SetStatus("col_count", th[t].ncols)
    /\ Set(t, [th[t] EXCEPT !.pc = "set_completed", !.ncols = 0])
    /\ UNCHANGED <<db, nstarted, response, sw, scripts, others>>

\* rebuild_runner.py:305  _status["state"] = "completed"
set_completed(t) ==
    /\ At(t, "set_completed")
    /\ SetStatus("state", "completed")
    /\ Set(t, Goto(t, "set_completed_at"))
    /\ UNCHANGED <<db, nstarted, response, sw, scripts, others>>

\* rebuild_runner.py:306  _status["completed_at"] = datetime.now().isoformat()
set_completed_at(t) ==
    /\ At(t, "set_completed_at")
    /\ SetStatus("completed_at", Some(now))
    /\ Set(t, [IdleThread EXCEPT !.pc = "done", !.log = th[t].log, !.seen = nstarted,
                                  !.skip = th[t].skip])
    /\ UNCHANGED <<db, nstarted, response, sw, scripts, others>>

\* rebuild_runner.py:309  _status["state"] = "error"
except_state(t) ==
    /\ At(t, "except_state")
    /\ SetStatus("state", "error")
    /\ Set(t, Goto(t, "except_error"))
    /\ UNCHANGED <<db, nstarted, response, sw, scripts, others>>

\* rebuild_runner.py:310  _status["error"] = str(e)
except_error(t) ==
    /\ At(t, "except_error")
    /\ SetStatus("error", Some(th[t].exc))
    /\ Set(t, Goto(t, "except_completed_at"))
    /\ UNCHANGED <<db, nstarted, response, sw, scripts, others>>

\* rebuild_runner.py:311-313  _status["completed_at"] = ...; raise
\* (web_ui.py:1238-1241 catches the exception and prints it)
except_completed_at(t) ==
    /\ At(t, "except_completed_at")
    /\ SetStatus("completed_at", Some(now))
    /\ Set(t, [IdleThread EXCEPT !.pc = "raised", !.exc = th[t].exc, !.log = th[t].log, !.skip = th[t].skip,
                                  !.seen = nstarted])
    /\ UNCHANGED <<db, nstarted, response, sw, scripts, others>>

\* One step of the thread t that runs run_rebuild
run_rebuild(t) ==
    \/ reset_status(t) \/ set_running(t) \/ set_started_at(t)
    \/ connect(t) \/ drop_new(t) \/ create_new(t) \/ describe(t) \/ add_column(t)
    \/ phase(t) \/ phase_name(t) \/ stmt(t) \/ append(t)
    \/ count_rows(t) \/ count_cols(t) \/ set_row_count(t) \/ set_col_count(t)
    \/ set_completed(t) \/ set_completed_at(t)
    \/ except_state(t) \/ except_error(t) \/ except_completed_at(t)

\* A thread is alive from Thread.start() until run_rebuild_background returns
Alive(t) == th[t].pc \notin {"none", "done", "raised"}

----------------------------------------------------------------------------
\* web_ui.py:1244-1252  POST /api/rebuild/start
\* The handler is a coroutine without an await: it runs on the event loop in
\* one piece, beside the threads.

\* start_rebuild without the test of the state
start_rebuild_unguarded ==
    /\ nstarted < MaxStarts
    /\ nstarted' = nstarted + 1
    /\ th' = [th EXCEPT ![nstarted + 1] = [IdleThread EXCEPT !.pc = "reset"]]
    /\ response' = "started"
    /\ UNCHANGED <<status, db, sw, scripts, others>>

start_rebuild ==
    IF get_status.state = "running"
    THEN /\ response' = "already_running"
         /\ UNCHANGED <<status, db, th, nstarted, sw, scripts, others>>
    ELSE /\ nstarted < MaxStarts
         /\ nstarted' = nstarted + 1
         /\ th' = [th EXCEPT ![nstarted + 1] =
                      [IdleThread EXCEPT !.pc = "reset"]]
         /\ response' = "started"
         /\ UNCHANGED <<status, db, sw, scripts, others>>

\* web_ui.py:1255-1258  GET /api/rebuild/status, and web_ui.py:1279 in
\* swap_rebuild: the caller obtains the dictionary get_status returns
get_rebuild_status ==
    /\ snapshot' = [taken |-> TRUE, list |-> CurrentList, status |-> get_status]
    /\ UNCHANGED <<rebuildVars, jobVars, splitVars, transferVars, pullVars, guessVars, eloVars>>

\* No reader
SnapIdle == snapshot = NoSnapshot

----------------------------------------------------------------------------
\* rebuild_runner.py:338-353  swap_tables, one step per statement
\* (called by web_ui.py:1271-1290 on the event loop, or from the command line)

\* The call begins
swap_begin ==
    /\ sw.pc \in {"idle", "done"}
    /\ sw' = [SwapIdle EXCEPT !.pc = "connect"]
    /\ UNCHANGED <<status, db, th, nstarted, response, scripts, others>>

\* rebuild_runner.py:340  con = duckdb.connect(DB_PATH)
swap_connect ==
    /\ sw.pc = "connect"
    /\ \/ sw' = [sw EXCEPT !.pc = "done", !.result = E_CONNECT]
       \/ sw' = [sw EXCEPT !.pc = "count"]
    /\ UNCHANGED <<status, db, th, nstarted, response, scripts, others>>

\* swap_count without the guard on the row count
swap_count_unguarded ==
    /\ sw.pc = "count"
    /\ sw' = IF ~db[NewTable].exists THEN [sw EXCEPT !.pc = "done", !.result = E_DNE]
             ELSE [sw EXCEPT !.pc = "drop_old"]
    /\ UNCHANGED <<status, db, th, nstarted, response, scripts, others>>

\* rebuild_runner.py:342-344  SELECT COUNT(*) FROM race_training_dataset_new, the guard
swap_count ==
    /\ sw.pc = "count"
    /\ sw' = IF ~db[NewTable].exists THEN [sw EXCEPT !.pc = "done", !.result = E_DNE]
             ELSE IF db[NewTable].rows = 0 THEN [sw EXCEPT !.pc = "done", !.result = E_EMPTY]
             ELSE [sw EXCEPT !.pc = "drop_old"]
    /\ UNCHANGED <<status, db, th, nstarted, response, scripts, others>>

\* rebuild_runner.py:348  DROP TABLE IF EXISTS race_training_dataset_old
swap_drop_old ==
    /\ sw.pc = "drop_old"
    /\ db' = [db EXCEPT ![OldTable] = NoTable]
    /\ sw' = [sw EXCEPT !.pc = "rename_prod"]
    /\ UNCHANGED <<status, th, nstarted, response, scripts, others>>

\* rebuild_runner.py:349  ALTER TABLE race_training_dataset RENAME TO race_training_dataset_old
swap_rename_prod ==
    /\ sw.pc = "rename_prod"
    /\ IF ~db[ProdTable].exists
       THEN sw' = [sw EXCEPT !.pc = "done", !.result = E_DNE] /\ UNCHANGED db
       ELSE IF db[OldTable].exists
       THEN sw' = [sw EXCEPT !.pc = "done", !.result = E_EXISTS] /\ UNCHANGED db
       ELSE /\ db' = [db EXCEPT ![OldTable] = db[ProdTable], ![ProdTable] = NoTable]
            /\ sw' = [sw EXCEPT !.pc = "rename_new", !.moved = db[ProdTable]]
    /\ UNCHANGED <<status, th, nstarted, response, scripts, others>>

\* swap_rename_new as a copy: the shadow keeps its name
swap_rename_new_copy ==
    /\ sw.pc = "rename_new"
    /\ IF ~db[NewTable].exists
       THEN sw' = [sw EXCEPT !.pc = "done", !.result = E_DNE] /\ UNCHANGED db
       ELSE IF db[ProdTable].exists
       THEN sw' = [sw EXCEPT !.pc = "done", !.result = E_EXISTS] /\ UNCHANGED db
       ELSE /\ db' = [db EXCEPT ![ProdTable] = db[NewTable]]
            /\ sw' = [sw EXCEPT !.pc = "done", !.result = "swapped"]
    /\ UNCHANGED <<status, th, nstarted, response, scripts, others>>

\* rebuild_runner.py:350-353  ALTER TABLE race_training_dataset_new RENAME TO race_training_dataset
swap_rename_new ==
    /\ sw.pc = "rename_new"
    /\ IF ~db[NewTable].exists
       THEN sw' = [sw EXCEPT !.pc = "done", !.result = E_DNE] /\ UNCHANGED db
       ELSE IF db[ProdTable].exists
       THEN sw' = [sw EXCEPT !.pc = "done", !.result = E_EXISTS] /\ UNCHANGED db
       ELSE /\ db' = [db EXCEPT ![ProdTable] = db[NewTable], ![NewTable] = NoTable]
            /\ sw' = [sw EXCEPT !.pc = "done", !.result = "swapped"]
    /\ UNCHANGED <<status, th, nstarted, response, scripts, others>>

swap_tables ==
    swap_connect \/ swap_count \/ swap_drop_old \/ swap_rename_prod \/ swap_rename_new

----------------------------------------------------------------------------
\* rebuild_runner.py:80-117  split_sql_statements. A text is a sequence of
\* characters; the texts of the model are built from a few of them: a letter,
\* the terminator, the two quotes, the backslash, the dash, the space and the
\* line feed.

LF == "\n"

\* The pieces the texts of the model are made of: the characters, with the
\* dash always doubled (a single dash is one more letter to the code)
Tokens == {<<"a">>, <<";">>, <<"'">>, <<"\"">>, <<"\\">>, <<"-", "-">>, <<" ">>, <<LF>>}

RECURSIVE Flatten(_)
Flatten(ss) == IF ss = <<>> THEN <<>> ELSE Head(ss) \o Flatten(Tail(ss))

\* The pieces of the texts that exercise comments and one kind of literal
QuoteTokens == {<<"a">>, <<";">>, <<"'">>, <<"-", "-">>, <<LF>>}

\* The script texts of up to n of the pieces
Texts(pieces, n) == UNION {{Flatten(f) : f \in [1..m -> pieces]} : m \in 0..n}

\* str.split(sep) for a separator of one character
RECURSIVE SplitOn(_, _)
SplitOn(cs, sep) ==
    IF \A k \in DOMAIN cs : cs[k] # sep THEN <<cs>>
    ELSE LET k == CHOOSE k \in DOMAIN cs : cs[k] = sep /\ \A m \in 1..(k - 1) : cs[m] # sep
         IN <<SubSeq(cs, 1, k - 1)>> \o SplitOn(SubSeq(cs, k + 1, Len(cs)), sep)

\* sep.join(parts)
RECURSIVE Join(_, _)
Join(parts, sep) ==
    IF parts = <<>> THEN <<>>
    ELSE IF Len(parts) = 1 THEN parts[1]
    ELSE parts[1] \o <<sep>> \o Join(Tail(parts), sep)

\* The white space str.strip() removes, as far as the texts of the model hold it
IsSpace(c) == c \in {" ", LF}

\* str.strip()
Strip(cs) ==
    IF \A k \in DOMAIN cs : IsSpace(cs[k]) THEN <<>>
    ELSE LET first == CHOOSE k \in DOMAIN cs : ~IsSpace(cs[k]) /\ \A m \in 1..(k - 1) : IsSpace(cs[m])
             last == CHOOSE k \in DOMAIN cs : ~IsSpace(cs[k]) /\ \A m \in (k + 1)..Len(cs) : IsSpace(cs[m])
         IN SubSeq(cs, first, last)

\* stripped.startswith('--')
StartsWithComment(cs) == Len(cs) >= 2 /\ cs[1] = "-" /\ cs[2] = "-"

\* stripped.endswith(';')
EndsWithSemicolon(cs) == cs # <<>> /\ cs[Len(cs)] = ";"

\* A quote tracking that counts a quote after a backslash as well
RECURSIVE TrackQuotes_every_quote(_, _, _)
TrackQuotes_every_quote(stripped, i, q) ==
    IF i > Len(stripped) THEN q
    ELSE LET char == stripped[i]
             next == IF char \notin {"'", "\""} THEN q
                     ELSE IF ~q[1] THEN <<TRUE, char>>
                     ELSE IF char = q[2] THEN <<FALSE, q[2]>>
                     ELSE q
         IN TrackQuotes_every_quote(stripped, i + 1, next)

\* rebuild_runner.py:96-102: the quote tracking over the characters i..Len of
\* a stripped line; q is <<in_string, string_char>>
RECURSIVE TrackQuotes(_, _, _)
TrackQuotes(stripped, i, q) ==
    IF i > Len(stripped) THEN q
    ELSE LET char == stripped[i]
             counts == char \in {"'", "\""} /\ (i = 1 \/ stripped[i - 1] # "\\")
             next == IF ~counts THEN q
                     ELSE IF ~q[1] THEN <<TRUE, char>>
                     ELSE IF char = q[2] THEN <<FALSE, q[2]>>
                     ELSE q
         IN TrackQuotes(stripped, i + 1, next)

\* rebuild_runner.py:107, 114: the test that keeps a statement
\* stmt and not all(l.strip().startswith('--') or not l.strip() for l in stmt.split('\n'))
Keeps(text) ==
    /\ text # <<>>
    /\ LET ls == SplitOn(text, LF)
       IN ~(\A k \in DOMAIN ls : StartsWithComment(Strip(ls[k])) \/ Strip(ls[k]) = <<>>)

\* text with its terminator cut off
Statement_without_terminator(current) ==
    LET text == Strip(Join(current, LF))
    IN IF EndsWithSemicolon(text) THEN Strip(SubSeq(text, 1, Len(text) - 1)) ELSE text

\* rebuild_runner.py:106, 113  stmt = '\n'.join(current).strip()
Statement(current) == Strip(Join(current, LF))

\* The locals of split_sql_statements before the loop (rebuild_runner.py:82-85).
\* ends lists the lines at which the loop closed a statement.
SplitStart ==
    [statements |-> <<>>, current |-> <<>>, in_string |-> FALSE, string_char |-> "",
     ends |-> <<>>]

\* rebuild_runner.py:87-109: the loop over the lines k..Len
RECURSIVE SplitLoop(_, _, _)
SplitLoop(lines, k, s) ==
    IF k > Len(lines) THEN s
    ELSE LET line == lines[k]
             stripped == Strip(line)
         IN IF stripped = <<>> \/ StartsWithComment(stripped)
            THEN SplitLoop(lines, k + 1, s)
            ELSE LET current == Append(s.current, line)
                     q == TrackQuotes(stripped, 1, <<s.in_string, s.string_char>>)
                     tracked == [s EXCEPT !.current = current, !.in_string = q[1],
                                          !.string_char = q[2]]
                 IN IF EndsWithSemicolon(stripped) /\ ~q[1]
                    THEN LET text == Statement(current)
                         IN SplitLoop(lines, k + 1,
                                [tracked EXCEPT
                                    !.statements = IF Keeps(text) THEN Append(@, text) ELSE @,
                                    !.ends = Append(@, k),
                                    !.current = <<>>])
                    ELSE SplitLoop(lines, k + 1, tracked)

\* SplitRest that returns the statements of the loop alone
SplitRest_without_rest(s) == s.statements

\* rebuild_runner.py:111-117: what is left after the loop
SplitRest(s) ==
    IF s.current # <<>>
    THEN LET text == Statement(s.current)
         IN IF Keeps(text) THEN Append(s.statements, text) ELSE s.statements
    ELSE s.statements

\* rebuild_runner.py:80-117
split_sql_statements(text) ==
    SplitRest(SplitLoop(SplitOn(text, LF), 1, SplitStart))

\* Nothing split yet
NoSplit == [done |-> FALSE, statements |-> <<>>, ends |-> <<>>]

\* rebuild_runner.py:129  statements = split_sql_statements(sql_text)
split ==
    /\ ~split_out.done
    /\ LET s == SplitLoop(SplitOn(sql_text, LF), 1, SplitStart)
       IN split_out' = [done |-> TRUE, statements |-> SplitRest(s), ends |-> s.ends]
    /\ UNCHANGED <<notSplit, sql_text, resplit_out>>

\* split_sql_statements once more, on its own statements joined by line feeds
resplit ==
    /\ split_out.done
    /\ ~resplit_out.done
    /\ resplit_out' = [done |-> TRUE,
                       statements |-> split_sql_statements(Join(split_out.statements, LF)),
                       ends |-> <<>>]
    /\ UNCHANGED <<notSplit, sql_text, split_out>>

\* No script text under the splitter
SplitIdle ==
    /\ sql_text = <<>>
    /\ split_out = NoSplit
    /\ resplit_out = NoSplit

----------------------------------------------------------------------------
\* app.py: push_table, one table from DuckDB to Supabase; and
\* fix_all_columns.py, the script that adds to the destination the columns the
\* SQL files name. Both work on race_training_dataset at the destination.
\* One step is one round trip to the destination, a commit included where the
\* code commits right after the statement; the computation between two round
\* trips belongs to the step that follows it.

RECURSIVE Pow10(_)
\* 10 ** n, n >= 0
Pow10(n) == IF n = 0 THEN 1 ELSE 10 * Pow10(n - 1)

\* A cell is None (NULL, NaN) or Some(n), n the value in ten-thousandths: the
\* scales of the model are at most 4, so 10 ** (-scale) is a whole number of them
Unit == Pow10(4)
Dec(whole, frac) == Some(whole * Unit + frac)
Neg(x) == Some(0 - x[1])
Abs(n) == IF n < 0 THEN 0 - n ELSE n

\* The values of a float column: 500.00, 999.99, 1234.56, -1234.56, NaN
Values ==
    {Dec(500, 0), Dec(999, 9900), Dec(1234, 5600), Neg(Dec(1234, 5600)), None}

RECURSIVE SeqsUpTo(_, _)
\* The sequences over S of length n or less
SeqsUpTo(S, n) ==
    IF n = 0 THEN {<<>>}
    ELSE LET shorter == SeqsUpTo(S, n - 1)
         IN  shorter \cup {Append(s, x) : s \in {q \in shorter : Len(q) = n - 1}, x \in S}

Range(s) == {s[i] : i \in DOMAIN s}

\* The column orders of the local table
LocalColumns ==
    {<<"race_id", "win_odds">>,
     <<"win_odds", "track", "race_id">>,
     <<"race_id", "win_odds", "is_fav", "track">>}

\* str(series.dtype) of a local column
dtype(col) ==
    CASE col = "race_id" -> "int64"
      [] col = "win_odds" -> "float64"
      [] col = "is_fav" -> "bool"
      [] OTHER -> "object"

\* The cell of a column in row r of the frame: win_odds carries the values,
\* the other columns carry the row number
Cell(frame, col, r) == IF col = "win_odds" THEN frame.win_odds[r] ELSE Some(r * Unit)

\* A row of information_schema.columns
Column(name, data_type, prec, scale) ==
    [name |-> name, data_type |-> data_type, prec |-> prec, scale |-> scale]

\* What information_schema.columns shows of a column declared with pg_type
ColumnInfo(name, pg_type) ==
    CASE pg_type \in {"BOOLEAN", "BOOLEAN DEFAULT FALSE"} -> Column(name, "boolean", None, None)
      [] pg_type = "BIGINT" -> Column(name, "bigint", Some(64), Some(0))
      [] pg_type \in {"INTEGER", "INTEGER DEFAULT 0"} -> Column(name, "integer", Some(32), Some(0))
      [] pg_type = "DOUBLE PRECISION" -> Column(name, "double precision", Some(53), None)
      [] pg_type = "TIMESTAMP" -> Column(name, "timestamp without time zone", None, None)
      [] pg_type = "NUMERIC(10,3)" -> Column(name, "numeric", Some(10), Some(3))
      [] pg_type = "NUMERIC(10,4)" -> Column(name, "numeric", Some(10), Some(4))
      [] pg_type = "NUMERIC(12,4)" -> Column(name, "numeric", Some(12), Some(4))
      [] pg_type = "VARCHAR(50)" -> Column(name, "character varying", None, None)
      [] OTHER -> Column(name, "text", None, None)

RaceId == Column("race_id", "bigint", Some(64), Some(0))

\* The destination table before a push: win_odds as numeric(5,2), with a
\* column the local table never had, as numeric(3,0), as numeric without
\* precision, or not there at all
RemoteColumns ==
    {<<RaceId, Column("win_odds", "numeric", Some(5), Some(2))>>,
     <<RaceId, Column("legacy_note", "text", None, None),
       Column("win_odds", "numeric", Some(5), Some(2))>>,
     <<RaceId, Column("win_odds", "numeric", Some(3), Some(0))>>,
     <<RaceId, Column("win_odds", "numeric", None, None)>>,
     <<Column("legacy_note", "text", None, None), RaceId>>}

\* A row the destination held before the push
OldRow == [c \in {"race_id"} |-> Some(0)]

\* An ALTER TABLE that adds nothing
keep_columns(cols, col, pg_type) == cols

\* ALTER TABLE ... ADD COLUMN IF NOT EXISTS "col" pg_type, on the column list
add_column_if_not_exists(cols, col, pg_type) ==
    IF \E i \in DOMAIN cols : cols[i].name = col THEN cols
    ELSE Append(cols, ColumnInfo(col, pg_type))

RECURSIVE AddColumns(_, _)
\* The ADD COLUMN clauses of a transaction, committed in their order
AddColumns(cols, added) ==
    IF added = <<>> THEN cols
    ELSE AddColumns(add_column_if_not_exists(cols, Head(added)[1], Head(added)[2]), Tail(added))

\* app.py:265-276
pg_type_for_series(dtype_str) ==
    CASE dtype_str = "bool" -> "BOOLEAN"
      [] dtype_str \in {"int64", "Int64"} -> "BIGINT"
      [] dtype_str \in {"float64", "float32"} -> "DOUBLE PRECISION"
      [] dtype_str = "datetime64[ns]" -> "TIMESTAMP"
      [] OTHER -> "TEXT"

\* app.py:296, 316: the names of the dictionary
remote_columns(remote_col_info) == {remote_col_info[i].name : i \in DOMAIN remote_col_info}

\* A schema sync that asks for every local column
all_local_cols(columns, remote) == columns

\* app.py:299
missing_remote_cols(columns, remote) ==
    SelectSeq(columns, LAMBDA c : c \notin remote)

\* app.py:318-321
numeric_limits(remote_col_info) ==
    LET limited == {i \in DOMAIN remote_col_info :
                        /\ remote_col_info[i].data_type = "numeric"
                        /\ remote_col_info[i].prec # None
                        /\ remote_col_info[i].scale # None}
    IN  [col \in {remote_col_info[i].name : i \in limited} |->
            LET r == remote_col_info[CHOOSE i \in limited : remote_col_info[i].name = col]
            IN  Pow10(r.prec[1] - r.scale[1]) * Unit - Unit \div Pow10(r.scale[1])]

\* app.py:324
common_cols(columns, remote) ==
    SelectSeq(columns, LAMBDA c : c \in remote)

\* A mask that compares the value with its sign
mask_signed(x, max_abs) == x # None /\ x[1] > max_abs

\* app.py:351: mask = df[col].abs() > max_abs; a NaN compares False
mask(x, max_abs) == x # None /\ Abs(x[1]) > max_abs

\* app.py:348-355: the cells of a column as they leave
clamp(frame, col, limits) ==
    [r \in DOMAIN frame.win_odds |->
        IF col \in DOMAIN limits /\ mask(Cell(frame, col, r), limits[col])
        THEN None ELSE Cell(frame, col, r)]

\* app.py:352: n_bad = mask.sum()
n_bad(frame, col, limits) ==
    IF col \in DOMAIN limits
    THEN Cardinality({r \in DOMAIN frame.win_odds : mask(Cell(frame, col, r), limits[col])})
    ELSE 0

RECURSIVE clamped_total(_, _, _)
\* app.py:347-355: the sum of n_bad over the columns pushed
clamped_total(frame, cols, limits) ==
    IF cols = <<>> THEN 0
    ELSE n_bad(frame, Head(cols), limits) + clamped_total(frame, Tail(cols), limits)

\* An allowlist that names races as well
PUSH_ALLOWED_wide == <<ProdTable, RacesTable>>

\* app.py:244
PUSH_ALLOWED == <<ProdTable>>

E_VALUE == "ValueError: Push not allowed"
E_CONN == "OperationalError: server closed the connection"

\* push_table not called
IdlePush ==
    [pc |-> "idle", table_name |-> "", progress_callback |-> FALSE, local_rows |-> 0,
     remote_before |-> 0, remote_col_info |-> <<>>, missing_remote_cols |-> <<>>,
     k |-> 1, alters |-> <<>>, tx_cols |-> <<>>, common_cols |-> <<>>,
     out |-> <<>>, clamped_total |-> 0, start |-> 0, rows_sent |-> 0,
     tx_rows |-> <<>>, calls |-> <<>>, result |-> None]

\* An exception leaves push_table: the connection goes, and with it what it
\* had not committed
PushRaise(exc) ==
    [pt EXCEPT !.pc = "raised", !.tx_cols = <<>>, !.tx_rows = <<>>, !.result = Some(exc)]

\* push_table_call that goes on to the destination with no rows
push_table_call_unskipped ==
    /\ pt.pc \in {"idle", "done", "raised"}
    /\ npushes < MaxPushes
    /\ npushes' = npushes + 1
    /\ \E table_name \in {ProdTable, RacesTable}, cb \in BOOLEAN :
          pt' = IF ~(\E i \in DOMAIN PUSH_ALLOWED : PUSH_ALLOWED[i] = table_name)
                THEN [IdlePush EXCEPT !.pc = "raised", !.table_name = table_name,
                                      !.result = Some(E_VALUE)]
                ELSE [IdlePush EXCEPT !.pc = "connect", !.table_name = table_name,
                                      !.progress_callback = cb,
                                      !.local_rows = Len(df.win_odds)]
    /\ UNCHANGED <<notTransfer, df, pg, fx>>

\* app.py:244-259
push_table_call ==
    /\ pt.pc \in {"idle", "done", "raised"}
    /\ npushes < MaxPushes
    /\ npushes' = npushes + 1
    /\ \E table_name \in {ProdTable, RacesTable}, cb \in BOOLEAN :
          pt' = IF ~(\E i \in DOMAIN PUSH_ALLOWED : PUSH_ALLOWED[i] = table_name)
                THEN [IdlePush EXCEPT !.pc = "raised", !.table_name = table_name,
                                      !.result = Some(E_VALUE)]
                ELSE IF Len(df.win_odds) = 0
                THEN [IdlePush EXCEPT !.pc = "done", !.table_name = table_name,
                                      !.result = Some([table |-> table_name,
                                                       status |-> "skipped",
                                                       reason |-> "empty table"])]
                ELSE [IdlePush EXCEPT !.pc = "connect", !.table_name = table_name,
                                      !.progress_callback = cb,
                                      !.local_rows = Len(df.win_odds)]
    /\ UNCHANGED <<notTransfer, df, pg, fx>>

\* app.py:262
push_connect ==
    /\ pt.pc = "connect"
    /\ \/ pt' = [pt EXCEPT !.pc = "count"]
       \/ pt' = PushRaise(E_CONN)
    /\ UNCHANGED <<notTransfer, df, pg, npushes, fx>>

\* app.py:279-280
push_count ==
    /\ pt.pc = "count"
    /\ pt' = [pt EXCEPT !.pc = "truncate", !.remote_before = Len(pg.rows)]
    /\ UNCHANGED <<notTransfer, df, pg, npushes, fx>>

\* app.py:284-285
push_truncate ==
    /\ pt.pc = "truncate"
    /\ pg' = [pg EXCEPT !.rows = <<>>]
    /\ pt' = [pt EXCEPT !.pc = "schema"]
    /\ UNCHANGED <<notTransfer, df, npushes, fx>>

\* app.py:289-300
push_schema ==
    /\ pt.pc = "schema"
    /\ LET missing == missing_remote_cols(df.columns, remote_columns(pg.cols))
       IN  pt' = [pt EXCEPT !.remote_col_info = pg.cols,
                            !.missing_remote_cols = missing,
                            !.k = 1,
                            !.pc = IF missing # <<>> THEN "alter" ELSE "prepare"]
    /\ UNCHANGED <<notTransfer, df, pg, npushes, fx>>

\* app.py:302-305: one ALTER TABLE of the loop
push_alter ==
    /\ pt.pc = "alter"
    /\ pt.k <= Len(pt.missing_remote_cols)
    /\ LET col == pt.missing_remote_cols[pt.k]
           add == <<col, pg_type_for_series(dtype(col))>>
       IN  \/ pt' = [pt EXCEPT !.alters = Append(@, add),
                               !.tx_cols = Append(@, add),
                               !.k = @ + 1]
           \/ pt' = PushRaise(E_CONN)
    /\ UNCHANGED <<notTransfer, df, pg, npushes, fx>>

\* app.py:306
push_alter_commit ==
    /\ pt.pc = "alter"
    /\ pt.k > Len(pt.missing_remote_cols)
    /\ pg' = [pg EXCEPT !.cols = AddColumns(@, pt.tx_cols)]
    /\ pt' = [pt EXCEPT !.pc = "refresh", !.tx_cols = <<>>]
    /\ UNCHANGED <<notTransfer, df, npushes, fx>>

\* app.py:309-316
push_refresh ==
    /\ pt.pc = "refresh"
    /\ pt' = [pt EXCEPT !.pc = "prepare", !.remote_col_info = pg.cols]
    /\ UNCHANGED <<notTransfer, df, pg, npushes, fx>>

\* app.py:318-371: the limits, the columns to push, the clamping, and the
\* first call of the callback. The casts of lines 329-344 change no value of
\* the columns of the model (a bool column to 'boolean', no float column with
\* an integer destination).
push_prepare ==
    /\ pt.pc = "prepare"
    /\ LET limits == numeric_limits(pt.remote_col_info)
           common == common_cols(df.columns, remote_columns(pt.remote_col_info))
       IN  pt' = [pt EXCEPT !.common_cols = common,
                            !.out = [c \in Range(common) |-> clamp(df, c, limits)],
                            !.clamped_total = clamped_total(df, common, limits),
                            !.start = 0,
                            !.rows_sent = 0,
                            !.calls = IF pt.progress_callback
                                      THEN <<<<0, pt.local_rows>>>> ELSE <<>>,
                            !.pc = "copy"]
    /\ UNCHANGED <<notTransfer, df, pg, npushes, fx>>

\* A chunk of one row, whatever CHUNK_SIZE
chunk_one_row(out, cols, start, n) ==
    [i \in 1..1 |-> [c \in Range(cols) |-> out[c][start + i]]]

\* app.py:375: chunk = df.iloc[start:start + CHUNK_SIZE], as rows
chunk(out, cols, start, n) ==
    [i \in 1..(Min(start + CHUNK_SIZE, n) - start) |->
        [c \in Range(cols) |-> out[c][start + i]]]

\* app.py:375-379
push_copy ==
    /\ pt.pc = "copy"
    /\ \/ pt' = [pt EXCEPT !.pc = "commit",
                           !.tx_rows = chunk(pt.out, pt.common_cols, pt.start, pt.local_rows)]
       \/ pt' = PushRaise(E_CONN)
    /\ UNCHANGED <<notTransfer, df, pg, npushes, fx>>

\* app.py:380-381
push_commit ==
    /\ pt.pc = "commit"
    /\ pg' = [pg EXCEPT !.rows = @ \o pt.tx_rows]
    /\ pt' = [pt EXCEPT !.pc = "progress",
                        !.rows_sent = @ + Len(pt.tx_rows),
                        !.tx_rows = <<>>]
    /\ UNCHANGED <<notTransfer, df, npushes, fx>>

\* app.py:383-384, and the next turn of the loop of line 374
push_progress ==
    /\ pt.pc = "progress"
    /\ pt' = [pt EXCEPT !.calls = IF pt.progress_callback
                                  THEN Append(@, <<pt.rows_sent, pt.local_rows>>) ELSE @,
                        !.start = @ + CHUNK_SIZE,
                        !.pc = IF pt.start + CHUNK_SIZE < pt.local_rows
                               THEN "copy" ELSE "verify"]
    /\ UNCHANGED <<notTransfer, df, pg, npushes, fx>>

\* app.py:387-400
push_verify ==
    /\ pt.pc = "verify"
    /\ pt' = [pt EXCEPT !.pc = "done",
                        !.result = Some([table |-> pt.table_name,
                                         local_rows |-> pt.local_rows,
                                         remote_before |-> pt.remote_before,
                                         remote_after |-> Len(pg.rows),
                                         columns_pushed |-> Len(pt.common_cols)])]
    /\ UNCHANGED <<notTransfer, df, pg, npushes, fx>>

push_table ==
    \/ push_table_call \/ push_connect \/ push_count \/ push_truncate
    \/ push_schema \/ push_alter \/ push_alter_commit \/ push_refresh
    \/ push_prepare \/ push_copy \/ push_commit \/ push_progress \/ push_verify

\* fix_all_columns.py:94-95, 103-104 keep a name longer than two characters;
\* line 115 drops a name of three characters and a name that starts with pg_
ShortNames == {"elo"}
PgNames == {"pg_stat"}

\* The names found in the SQL files (fix_all_columns.py:81-107): none the
\* destination lacks, or five of which three pass line 115
Referenced ==
    {{"race_id"},
     {"elo", "is_fav", "pg_stat", "track_type", "win_count"}}

\* sorted(): the names of the model in their order
Alphabetical ==
    <<"elo", "is_fav", "legacy_note", "pg_stat", "race_id", "track",
      "track_type", "win_count", "win_odds">>

sorted(S) == SelectSeq(Alphabetical, LAMBDA c : c \in S)

\* A column name is taken apart into its words, the pieces that underscores
\* separate: is_fav is <<"is", "fav">>
Words(col_name) ==
    CASE col_name = "is_fav" -> <<"is", "fav">>
      [] col_name = "legacy_note" -> <<"legacy", "note">>
      [] col_name = "pg_stat" -> <<"pg", "stat">>
      [] col_name = "race_id" -> <<"race", "id">>
      [] col_name = "track_type" -> <<"track", "type">>
      [] col_name = "win_count" -> <<"win", "count">>
      [] col_name = "win_odds" -> <<"win", "odds">>
      [] OTHER -> <<col_name>>

\* col_lower.startswith(word + '_')
startswith(words, word) == Len(words) >= 2 /\ words[1] = word

\* col_lower.endswith('_' + word)
endswith(words, word) == Len(words) >= 2 /\ words[Len(words)] = word

\* fix_all_columns.py:131-134: match.group(1).upper() for a declared type: the
\* first word of the type, with what follows it in parentheses, in capitals
group1_upper(declared) ==
    CASE declared = "double precision" -> "DOUBLE"
      [] declared = "numeric(8,2)" -> "NUMERIC(8,2)"
      [] declared = "boolean default false" -> "BOOLEAN"
      [] declared = "integer" -> "INTEGER"
      [] OTHER -> declared

\* guess_column_type with the naming rules asked before the SQL text
guess_column_type_names_first(col_name, sql_content) ==
    LET match == SelectSeq(sql_content, LAMBDA d : d.name = col_name)
    IN  IF endswith(col_name, "flag") \/ startswith(col_name, "is") \/ startswith(col_name, "has")
        THEN "BOOLEAN DEFAULT FALSE"
        ELSE IF endswith(col_name, "count") \/ endswith(col_name, "runs") \/ endswith(col_name, "starts")
        THEN "INTEGER DEFAULT 0"
        ELSE IF match # <<>> THEN group1_upper(match[1].type)
        ELSE "NUMERIC(12,4)"

\* fix_all_columns.py:126-159. col_name is the name in words; sql_content is
\* the ADD COLUMN declarations of the SQL files, in the order of the text
guess_column_type(col_name, sql_content) ==
    LET match == SelectSeq(sql_content, LAMBDA d : d.name = col_name)
    IN  IF match # <<>> THEN group1_upper(match[1].type)
        ELSE IF endswith(col_name, "flag") \/ startswith(col_name, "is") \/ startswith(col_name, "has")
        THEN "BOOLEAN DEFAULT FALSE"
        ELSE IF endswith(col_name, "count") \/ endswith(col_name, "runs") \/ endswith(col_name, "starts")
        THEN "INTEGER DEFAULT 0"
        ELSE IF endswith(col_name, "days") \/ endswith(col_name, "position") \/ endswith(col_name, "level")
        THEN "INTEGER"
        ELSE IF endswith(col_name, "rate") \/ endswith(col_name, "pct") \/ endswith(col_name, "percentage")
        THEN "NUMERIC(10,4)"
        ELSE IF endswith(col_name, "score") \/ endswith(col_name, "rating") \/ endswith(col_name, "figure")
        THEN "NUMERIC(12,4)"
        ELSE IF endswith(col_name, "improvement") \/ endswith(col_name, "change")
        THEN "NUMERIC(10,4)"
        ELSE IF endswith(col_name, "bias") \/ endswith(col_name, "error")
        THEN "NUMERIC(10,4)"
        ELSE IF endswith(col_name, "advantage") \/ endswith(col_name, "preference")
        THEN "NUMERIC(10,4)"
        ELSE IF endswith(col_name, "time") \/ endswith(col_name, "seconds")
        THEN "NUMERIC(10,3)"
        ELSE IF endswith(col_name, "style") \/ endswith(col_name, "type") \/ endswith(col_name, "category")
        THEN "VARCHAR(50)"
        ELSE "NUMERIC(12,4)"

\* fix_all_columns.py:162-167: the SQL files of the model declare no column
\* in an ADD COLUMN statement
all_sql == <<>>

\* No call of guess_column_type
NoGuess == [done |-> FALSE, col_name |-> <<>>, sql_content |-> <<>>, col_type |-> ""]

\* fix_all_columns.py:176  col_type = guess_column_type(col, all_sql)
guess ==
    /\ ~gc.done
    /\ gc' = [gc EXCEPT !.done = TRUE,
                        !.col_type = guess_column_type(gc.col_name, gc.sql_content)]
    /\ UNCHANGED <<rebuildVars, jobVars, splitVars, transferVars, pullVars, eloVars, snapVars>>

GuessIdle == gc = NoGuess

\* The longest column name of a call, in words, and the most ADD COLUMN
\* declarations in the SQL text
MaxWords == 3
MaxDecls == 2

\* Words that naming rules ask for, at either end of a name, and one that no
\* rule asks for
GuessWords == {"is", "has", "flag", "count", "rate", "time", "elo"}

\* The column names of up to MaxWords words
GuessNames == SeqsUpTo(GuessWords, MaxWords) \ {<<>>}

\* ADD COLUMN [IF NOT EXISTS] name type, as the SQL files may hold it
Declarations ==
    [name : {<<"is", "rate">>, <<"elo">>}, type : {"double precision", "numeric(8,2)"}]


\* fix_all_columns.py:113-115
missing_columns(all_referenced_columns, existing_columns) ==
    {c \in all_referenced_columns \ existing_columns : c \notin PgNames /\ c \notin ShortNames}

\* fix_all_columns.py:174-178
alter_statements(missing) ==
    LET names == sorted(missing)
    IN  [i \in DOMAIN names |-> <<names[i], guess_column_type(Words(names[i]), all_sql)>>]

\* The script not started
IdleFix(referenced) ==
    [pc |-> "idle", all_referenced_columns |-> referenced, existing_columns |-> {},
     missing_columns |-> {}, alter_statements |-> <<>>, i |-> 0, alters |-> <<>>,
     runs |-> 0, final_count |-> 0]

\* fix_all_columns.py:23-28
fix_existing ==
    /\ fx.pc \in {"idle", "done"}
    /\ fx.runs < MaxFixRuns
    /\ fx' = [IdleFix(fx.all_referenced_columns) EXCEPT
                 !.pc = "missing", !.runs = fx.runs + 1,
                 !.existing_columns = remote_columns(pg.cols)]
    /\ UNCHANGED <<notTransfer, df, pg, pt, npushes>>

\* fix_all_columns.py:113-115, 169-179
fix_missing ==
    /\ fx.pc = "missing"
    /\ LET missing == missing_columns(fx.all_referenced_columns, fx.existing_columns)
       IN  fx' = [fx EXCEPT !.missing_columns = missing,
                            !.alter_statements = IF missing # {} THEN alter_statements(missing)
                                                 ELSE <<>>,
                            !.i = 0,
                            !.pc = IF missing # {} THEN "batch" ELSE "summary"]
    /\ UNCHANGED <<notTransfer, df, pg, pt, npushes>>

\* fix_all_columns.py:183-192: one ALTER TABLE of up to batch_size clauses,
\* committed, or refused and rolled back
fix_batch ==
    /\ fx.pc = "batch"
    /\ LET batch == SubSeq(fx.alter_statements, fx.i + 1,
                           Min(fx.i + batch_size, Len(fx.alter_statements)))
           more == fx.i + batch_size < Len(fx.alter_statements)
       IN  \/ /\ pg' = [pg EXCEPT !.cols = AddColumns(@, batch)]
              /\ fx' = [fx EXCEPT !.alters = @ \o batch,
                                  !.i = @ + batch_size,
                                  !.pc = IF more THEN "batch" ELSE "summary"]
           \/ /\ pg' = pg
              /\ fx' = [fx EXCEPT !.i = @ + batch_size,
                                  !.pc = IF more THEN "batch" ELSE "summary"]
    /\ UNCHANGED <<notTransfer, df, pt, npushes>>

\* fix_all_columns.py:206-211
fix_summary ==
    /\ fx.pc = "summary"
    /\ fx' = [fx EXCEPT !.pc = "done", !.final_count = Len(pg.cols)]
    /\ UNCHANGED <<notTransfer, df, pg, pt, npushes>>

fix_all_columns == fix_existing \/ fix_missing \/ fix_batch \/ fix_summary

\* No push_table, no fix_all_columns
TransferIdle ==
    /\ df = [columns |-> <<>>, win_odds |-> <<>>]
    /\ pg = [cols |-> <<>>, rows |-> <<>>]
    /\ pt = IdlePush
    /\ npushes = 0
    /\ fx = IdleFix({})

----------------------------------------------------------------------------
\* web_ui.py: the pull job (/api/sync, run_sync) and the push job (/api/push,
\* run_push). A start handler runs on the event loop up to its await and from
\* it; the job runs in a thread of its own. pull_table and push_table are
\* calls that end well or raise; of the _sync_metadata table that save_sync_time
\* writes, the model keeps the names of the tables a job has recorded.

\* app.py:28-36: seven names in the source, two of them here
TABLES == <<RacesTable, ResultsTable>>

\* web_ui.py:272
PUSHABLE == <<ProdTable>>

\* The "tables" a request body can carry: none, or a list
Requests == {None, Some(<<RacesTable>>), Some(<<RacesTable, ProdTable>>)}

\* The error text of a job is the sequence of its parts: <<table, e>> is
\* f"{table}: {e}" and <<e>> is str(e)
E_IMPORT == "ImportError: app"
E_PULL == "connection to server failed"
E_PUSH == "COPY failed"

JobThreads == 1..MaxJobStarts

\* web_ui.py:26-35
SyncIdle ==
    [running |-> FALSE, current_table |-> None, tables_done |-> <<>>,
     tables_total |-> <<>>, progress |-> "", progress_pct |-> 0,
     last_sync |-> None, error |-> None]

\* web_ui.py:152-163
PushIdle ==
    [running |-> FALSE, current_table |-> None, tables_done |-> <<>>,
     tables_total |-> <<>>, progress |-> "", progress_pct |-> 0,
     error |-> None, results |-> <<>>, rows_pushed |-> 0, total_rows |-> 0]

\* A thread that has not been created: tables is the argument of the job,
\* todo the list it works on, i the position in it, saved the tables whose
\* row of _sync_metadata the job has written
NoJob == [pc |-> "none", tables |-> None, todo |-> <<>>, i |-> 0, exc |-> "", saved |-> <<>>]

\* No request yet
NoHttp == [awaiting |-> 0, started |-> 0, response |-> "none"]

JobAlive(r) == r.pc \notin {"none", "done"}

\* The start requests that have passed the test of the running flag so far
Accepted ==
    sync_http.awaiting + sync_http.started + push_http.awaiting + push_http.started

\* tables if tables else DEFAULT
OrDefault(tables, default) ==
    IF tables = None THEN default ELSE IF tables[1] = <<>> THEN default ELSE tables[1]

\* int((i / len(tables_to_sync)) * 100), i counted from 0
Pct(i, len) == (i * 100) \div len

\* web_ui.py:1037-1042  the test of sync_status["running"], then await request.json()
start_sync_check ==
    /\ IF sync_status.running
       THEN sync_http' = [sync_http EXCEPT !.response = "already_running"]
       ELSE /\ Accepted < MaxJobStarts
            /\ sync_http' = [sync_http EXCEPT !.awaiting = @ + 1]
    /\ UNCHANGED <<notJobs, sync_status, push_status, sync_threads, push_threads, push_http>>

\* web_ui.py:1042-1052  the body has arrived: threading.Thread(target=run_sync).start()
start_sync_start ==
    /\ sync_http.awaiting > 0
    /\ \E tables \in Requests :
        /\ sync_threads' = [sync_threads EXCEPT ![sync_http.started + 1] =
                               [NoJob EXCEPT !.pc = "set_running", !.tables = tables]]
        /\ sync_http' = [awaiting |-> sync_http.awaiting - 1,
                         started |-> sync_http.started + 1, response |-> "started"]
    /\ UNCHANGED <<notJobs, sync_status, push_status, push_threads, push_http>>

\* web_ui.py:1034-1052
start_sync_endpoint == start_sync_check \/ start_sync_start

\* One step of the thread j of run_sync: from position p, status and locals change
SyncStep(j, p, newstatus, newlocals) ==
    /\ sync_threads[j].pc = p
    /\ sync_status' = newstatus
    /\ sync_threads' = [sync_threads EXCEPT ![j] = newlocals]
    /\ UNCHANGED <<notJobs, push_status, push_threads, sync_http, push_http>>

\* web_ui.py:115  sync_status["running"] = True
sync_set_running(j) ==
    SyncStep(j, "set_running", [sync_status EXCEPT !.running = TRUE],
             [sync_threads[j] EXCEPT !.pc = "reset"])

\* web_ui.py:116-118
sync_reset(j) ==
    SyncStep(j, "reset",
             [sync_status EXCEPT !.error = None, !.tables_done = <<>>, !.progress_pct = 0],
             [sync_threads[j] EXCEPT !.pc = "totals"])

\* web_ui.py:121-124  the import, tables_to_sync, tables_total
sync_totals(j) ==
    LET r == sync_threads[j]
        todo == OrDefault(r.tables, TABLES)
    IN \/ SyncStep(j, "totals", sync_status, [r EXCEPT !.pc = "except", !.exc = E_IMPORT])
       \/ SyncStep(j, "totals", [sync_status EXCEPT !.tables_total = todo],
                   [r EXCEPT !.pc = "begin", !.todo = todo, !.i = 1])

\* web_ui.py:126-129  the head of the loop and the three writes before the pull
sync_begin(j) ==
    /\ sync_threads[j].pc = "begin"
    /\ LET r == sync_threads[j] IN
       IF r.i > Len(r.todo)
       THEN SyncStep(j, "begin", sync_status, [r EXCEPT !.pc = "finish"])
       ELSE SyncStep(j, "begin",
                     [sync_status EXCEPT !.current_table = Some(r.todo[r.i]),
                                         !.progress = "Pulling",
                                         !.progress_pct = Pct(r.i - 1, Len(r.todo))],
                     [r EXCEPT !.pc = "pull"])

\* sync_pull that records the error and goes on with the next table
sync_pull_going_on(j) ==
    /\ sync_threads[j].pc = "pull"
    /\ LET r == sync_threads[j] IN
       \/ SyncStep(j, "pull",
                   [sync_status EXCEPT !.tables_done = Append(@, r.todo[r.i])],
                   [r EXCEPT !.pc = "save"])
       \/ SyncStep(j, "pull",
                   [sync_status EXCEPT !.error = Some(<<r.todo[r.i], E_PULL>>)],
                   [r EXCEPT !.pc = "begin", !.i = r.i + 1])

\* web_ui.py:131-137  pull_table, then tables_done.append, or error and break
sync_pull(j) ==
    /\ sync_threads[j].pc = "pull"
    /\ LET r == sync_threads[j] IN
       \/ SyncStep(j, "pull",
                   [sync_status EXCEPT !.tables_done = Append(@, r.todo[r.i])],
                   [r EXCEPT !.pc = "save"])
       \/ SyncStep(j, "pull",
                   [sync_status EXCEPT !.error = Some(<<r.todo[r.i], E_PULL>>)],
                   [r EXCEPT !.pc = "finish"])

\* web_ui.py:134, 94-109  save_sync_time(table): INSERT OR REPLACE INTO
\* _sync_metadata, or the exception that save_sync_time catches and prints
sync_save(j) ==
    /\ sync_threads[j].pc = "save"
    /\ LET r == sync_threads[j] IN
       \/ SyncStep(j, "save", sync_status,
                   [r EXCEPT !.pc = "begin", !.i = r.i + 1, !.saved = Append(@, r.todo[r.i])])
       \/ SyncStep(j, "save", sync_status, [r EXCEPT !.pc = "begin", !.i = r.i + 1])

\* web_ui.py:139-143
sync_finish(j) ==
    SyncStep(j, "finish",
             [sync_status EXCEPT !.progress_pct = 100, !.progress = "Complete!",
                                 !.current_table = None, !.last_sync = Some(now)],
             [sync_threads[j] EXCEPT !.pc = "finally"])

\* web_ui.py:144-146
sync_except(j) ==
    SyncStep(j, "except",
             [sync_status EXCEPT !.error = Some(<<sync_threads[j].exc>>), !.progress = "Error"],
             [sync_threads[j] EXCEPT !.pc = "finally"])

\* web_ui.py:147-148  finally: sync_status["running"] = False
sync_finally(j) ==
    SyncStep(j, "finally", [sync_status EXCEPT !.running = FALSE],
             [NoJob EXCEPT !.pc = "done", !.saved = sync_threads[j].saved])

\* web_ui.py:112-148
run_sync(j) ==
    \/ sync_set_running(j) \/ sync_reset(j) \/ sync_totals(j) \/ sync_begin(j)
    \/ sync_pull(j) \/ sync_save(j) \/ sync_finish(j) \/ sync_except(j) \/ sync_finally(j)

\* web_ui.py:1209-1214  the test of push_status["running"], then await request.json()
start_push_check ==
    /\ IF push_status.running
       THEN push_http' = [push_http EXCEPT !.response = "already_running"]
       ELSE /\ Accepted < MaxJobStarts
            /\ push_http' = [push_http EXCEPT !.awaiting = @ + 1]
    /\ UNCHANGED <<notJobs, sync_status, push_status, sync_threads, push_threads, sync_http>>

\* web_ui.py:1214-1223  the body has arrived: threading.Thread(target=run_push).start()
start_push_start ==
    /\ push_http.awaiting > 0
    /\ \E tables \in Requests :
        /\ push_threads' = [push_threads EXCEPT ![push_http.started + 1] =
                               [NoJob EXCEPT !.pc = "set_running", !.tables = tables]]
        /\ push_http' = [awaiting |-> push_http.awaiting - 1,
                         started |-> push_http.started + 1, response |-> "started"]
    /\ UNCHANGED <<notJobs, sync_status, push_status, sync_threads, sync_http>>

\* web_ui.py:1206-1223
start_push == start_push_check \/ start_push_start

\* One step of the thread j of run_push
PushStep(j, p, newstatus, newlocals) ==
    /\ push_threads[j].pc = p
    /\ push_status' = newstatus
    /\ push_threads' = [push_threads EXCEPT ![j] = newlocals]
    /\ UNCHANGED <<notJobs, sync_status, sync_threads, sync_http, push_http>>

\* web_ui.py:255  push_status["running"] = True
push_set_running(j) ==
    PushStep(j, "set_running", [push_status EXCEPT !.running = TRUE],
             [push_threads[j] EXCEPT !.pc = "reset"])

\* web_ui.py:256-261
push_reset(j) ==
    PushStep(j, "reset",
             [push_status EXCEPT !.error = None, !.tables_done = <<>>, !.results = <<>>,
                                 !.progress_pct = 0, !.rows_pushed = 0, !.total_rows = 0],
             [push_threads[j] EXCEPT !.pc = "totals"])

\* web_ui.py:270-276  the import, tables_to_push cut down to PUSHABLE, tables_total
push_totals(j) ==
    LET r == push_threads[j]
        todo == SelectSeq(OrDefault(r.tables, PUSHABLE),
                          LAMBDA n : \E k \in DOMAIN PUSHABLE : PUSHABLE[k] = n)
    IN \/ PushStep(j, "totals", push_status, [r EXCEPT !.pc = "except", !.exc = E_IMPORT])
       \/ PushStep(j, "totals", [push_status EXCEPT !.tables_total = todo],
                   [r EXCEPT !.pc = "begin", !.todo = todo, !.i = 1])

\* web_ui.py:278-282  the head of the loop and the four writes before the push
push_begin(j) ==
    /\ push_threads[j].pc = "begin"
    /\ LET r == push_threads[j] IN
       IF r.i > Len(r.todo)
       THEN PushStep(j, "begin", push_status, [r EXCEPT !.pc = "finish"])
       ELSE PushStep(j, "begin",
                     [push_status EXCEPT !.current_table = Some(r.todo[r.i]),
                                         !.progress = "Pushing",
                                         !.rows_pushed = 0, !.total_rows = 0],
                     [r EXCEPT !.pc = "push"])

\* web_ui.py:284-291  push_table with _progress_cb (lines 263-267), then the
\* two appends, or error, the error result and break. The call returns
\* 'skipped' for an empty local table (app.py:258-259) and reports (n, n) last.
push_push(j) ==
    /\ push_threads[j].pc = "push"
    /\ LET r == push_threads[j]
           n == db[r.todo[r.i]].rows
       IN \/ /\ n = 0
             /\ PushStep(j, "push",
                         [push_status EXCEPT
                             !.tables_done = Append(@, r.todo[r.i]),
                             !.results = Append(@, [table |-> r.todo[r.i], status |-> "skipped"])],
                         [r EXCEPT !.pc = "begin", !.i = r.i + 1])
          \/ /\ n > 0
             /\ PushStep(j, "push",
                         [push_status EXCEPT
                             !.rows_pushed = n, !.total_rows = n, !.progress_pct = 100,
                             !.progress = "Uploading",
                             !.tables_done = Append(@, r.todo[r.i]),
                             !.results = Append(@, [table |-> r.todo[r.i], status |-> "pushed"])],
                         [r EXCEPT !.pc = "begin", !.i = r.i + 1])
          \/ PushStep(j, "push",
                      [push_status EXCEPT
                          !.error = Some(<<r.todo[r.i], E_PUSH>>),
                          !.results = Append(@, [table |-> r.todo[r.i], status |-> E_PUSH])],
                      [r EXCEPT !.pc = "finish"])

\* web_ui.py:293-295
push_finish(j) ==
    PushStep(j, "finish",
             [push_status EXCEPT !.progress_pct = 100, !.progress = "Push complete!",
                                 !.current_table = None],
             [push_threads[j] EXCEPT !.pc = "finally"])

\* web_ui.py:296-298
push_except(j) ==
    PushStep(j, "except",
             [push_status EXCEPT !.error = Some(<<push_threads[j].exc>>), !.progress = "Error"],
             [push_threads[j] EXCEPT !.pc = "finally"])

\* web_ui.py:299-300  finally: push_status["running"] = False
push_finally(j) ==
    PushStep(j, "finally", [push_status EXCEPT !.running = FALSE],
             [NoJob EXCEPT !.pc = "done"])

\* web_ui.py:252-300
run_push(j) ==
    \/ push_set_running(j) \/ push_reset(j) \/ push_totals(j) \/ push_begin(j)
    \/ push_push(j) \/ push_finish(j) \/ push_except(j) \/ push_finally(j)

\* No pull or push job, no request for one
JobsIdle ==
    /\ sync_status = SyncIdle
    /\ push_status = PushIdle
    /\ sync_threads = [j \in JobThreads |-> NoJob]
    /\ push_threads = [j \in JobThreads |-> NoJob]
    /\ sync_http = NoHttp
    /\ push_http = NoHttp


----------------------------------------------------------------------------
\* web_ui.py:166-249 and 1186-1193  the ELO rebuild job: the stored procedures
\* of the destination wipe the ratings and rebuild them year by year. The log
\* lines and the two timestamps of the status are left out.

\* Years the job processes: list(range(2017, 2027)) in web_ui.py:199, here the
\* first MaxYears of them
MaxYears == 2
years == [k \in 1..MaxYears |-> 2016 + k]

E_NO_URL == "No DATABASE_URL configured"
E_ELO == "process_elo_by_year failed"

\* web_ui.py:167-179
EloStatusIdle ==
    [running |-> FALSE, phase |-> "", current_year |-> None, years_done |-> <<>>,
     progress_pct |-> 0, error |-> None, total_processed |-> 0]

NoEloJob == [pc |-> "none", i |-> 0, exc |-> ""]

\* web_ui.py:1186-1193  the handler has no await: test and Thread.start() in one piece
start_elo_rebuild ==
    /\ IF elo_rebuild_status.running
       THEN /\ elo_http' = [elo_http EXCEPT !.response = "already_running"]
            /\ UNCHANGED elo_threads
       ELSE /\ elo_http.started < MaxJobStarts
            /\ elo_threads' = [elo_threads EXCEPT ![elo_http.started + 1] =
                                  [NoEloJob EXCEPT !.pc = "getenv"]]
            /\ elo_http' = [started |-> elo_http.started + 1, response |-> "started"]
    /\ UNCHANGED <<rebuildVars, jobVars, splitVars, transferVars, pullVars, guessVars,
                   snapVars, elo_rebuild_status>>

\* One step of the thread j of run_elo_rebuild
EloStep(j, p, newstatus, newlocals) ==
    /\ elo_threads[j].pc = p
    /\ elo_rebuild_status' = newstatus
    /\ elo_threads' = [elo_threads EXCEPT ![j] = newlocals]
    /\ UNCHANGED <<rebuildVars, jobVars, splitVars, transferVars, pullVars, guessVars, snapVars,
                   elo_http>>

\* web_ui.py:185-189  no DATABASE_URL: the error, running = False, return
elo_getenv(j) ==
    \/ EloStep(j, "getenv",
               [elo_rebuild_status EXCEPT !.error = Some(E_NO_URL), !.running = FALSE],
               [NoEloJob EXCEPT !.pc = "done"])
    \/ EloStep(j, "getenv", elo_rebuild_status, [elo_threads[j] EXCEPT !.pc = "set_running"])

\* web_ui.py:191
elo_set_running(j) ==
    EloStep(j, "set_running", [elo_rebuild_status EXCEPT !.running = TRUE],
            [elo_threads[j] EXCEPT !.pc = "reset"])

\* web_ui.py:192-199
elo_reset(j) ==
    EloStep(j, "reset",
            [elo_rebuild_status EXCEPT !.error = None, !.years_done = <<>>,
                                       !.total_processed = 0],
            [elo_threads[j] EXCEPT !.pc = "connect"])

\* web_ui.py:202-204  psycopg2.connect
elo_connect(j) ==
    \/ EloStep(j, "connect", elo_rebuild_status, [elo_threads[j] EXCEPT !.pc = "wipe"])
    \/ EloStep(j, "connect", elo_rebuild_status,
               [elo_threads[j] EXCEPT !.pc = "except", !.exc = E_CONN])

\* web_ui.py:207-212  phase = "wiping" and wipe_horse_elo_ratings()
elo_wipe(j) ==
    \/ EloStep(j, "wipe", [elo_rebuild_status EXCEPT !.phase = "wiping"],
               [elo_threads[j] EXCEPT !.pc = "processing"])
    \/ EloStep(j, "wipe", [elo_rebuild_status EXCEPT !.phase = "wiping"],
               [elo_threads[j] EXCEPT !.pc = "except", !.exc = E_ELO])

\* web_ui.py:215
elo_processing(j) ==
    EloStep(j, "processing", [elo_rebuild_status EXCEPT !.phase = "processing"],
            [elo_threads[j] EXCEPT !.pc = "year", !.i = 1])

\* web_ui.py:216-231  one year: process_elo_by_year(year) and what it returned
elo_year(j) ==
    /\ elo_threads[j].pc = "year"
    /\ LET r == elo_threads[j]
           begun == [elo_rebuild_status EXCEPT !.current_year = Some(years[r.i]),
                                               !.progress_pct = Pct(r.i - 1, Len(years))]
       IN  IF r.i > Len(years)
           THEN EloStep(j, "year", elo_rebuild_status, [r EXCEPT !.pc = "finish"])
           ELSE \/ \E count \in 0..1 :
                      EloStep(j, "year",
                              [begun EXCEPT !.total_processed = @ + count,
                                            !.years_done = Append(@, years[r.i])],
                              [r EXCEPT !.i = r.i + 1])
                \/ EloStep(j, "year", begun, [r EXCEPT !.pc = "except", !.exc = E_ELO])

\* web_ui.py:233-242
elo_finish(j) ==
    EloStep(j, "finish",
            [elo_rebuild_status EXCEPT !.phase = "done", !.progress_pct = 100,
                                       !.current_year = None],
            [elo_threads[j] EXCEPT !.pc = "finally"])

\* web_ui.py:244-247
elo_except(j) ==
    EloStep(j, "except",
            [elo_rebuild_status EXCEPT !.error = Some(elo_threads[j].exc), !.phase = "error"],
            [elo_threads[j] EXCEPT !.pc = "finally"])

\* run_elo_rebuild without the finally clause
elo_finally_flag_kept(j) ==
    EloStep(j, "finally", elo_rebuild_status, [NoEloJob EXCEPT !.pc = "done"])

\* web_ui.py:248-249  finally: elo_rebuild_status["running"] = False
elo_finally(j) ==
    EloStep(j, "finally", [elo_rebuild_status EXCEPT !.running = FALSE],
            [NoEloJob EXCEPT !.pc = "done"])

\* web_ui.py:182-249
run_elo_rebuild(j) ==
    \/ elo_getenv(j) \/ elo_set_running(j) \/ elo_reset(j) \/ elo_connect(j)
    \/ elo_wipe(j) \/ elo_processing(j) \/ elo_year(j) \/ elo_finish(j)
    \/ elo_except(j) \/ elo_finally(j)

\* No ELO rebuild job, no request for one
EloIdle ==
    /\ elo_rebuild_status = EloStatusIdle
    /\ elo_threads = [j \in JobThreads |-> NoEloJob]
    /\ elo_http = [started |-> 0, response |-> "none"]

----------------------------------------------------------------------------
\* app.py:60-146  pull_table, one table from Supabase into the DuckDB file:
\* the read of the source, then DROP TABLE IF EXISTS, CREATE TABLE and the
\* count, one step per statement. It is called by run_sync in its thread
\* and from the command line.

\* pull_table not called
IdlePull == [pc |-> "idle", table_name |-> "", all_rows |-> 0, calls |-> 0, result |-> ""]

\* pull_table with the DROP TABLE ahead of the read of the source
pull_fetch_after_drop ==
    /\ pl.pc \in {"idle", "done"}
    /\ pl.calls < MaxPulls
    /\ \E table_name \in {ProdTable, RacesTable} :
          /\ db' = [db EXCEPT ![table_name] = NoTable]
          /\ \/ \E n \in 0..MaxRows :
                   pl' = [pc |-> "create", table_name |-> table_name, all_rows |-> n,
                          calls |-> pl.calls + 1, result |-> ""]
             \/ pl' = [pc |-> "done", table_name |-> table_name, all_rows |-> 0,
                       calls |-> pl.calls + 1, result |-> E_PULL]
    /\ UNCHANGED notPull

\* app.py:64-105  the rows of the source, fetched whole, or a failure
pull_fetch ==
    /\ pl.pc \in {"idle", "done"}
    /\ pl.calls < MaxPulls
    /\ \E table_name \in {ProdTable, RacesTable} :
          \/ \E n \in 0..MaxRows :
                pl' = [pc |-> "drop", table_name |-> table_name, all_rows |-> n,
                       calls |-> pl.calls + 1, result |-> ""]
          \/ pl' = [pc |-> "done", table_name |-> table_name, all_rows |-> 0,
                    calls |-> pl.calls + 1, result |-> E_PULL]
    /\ UNCHANGED <<notPull, db>>

\* app.py:108-111  DROP TABLE IF EXISTS
pull_drop ==
    /\ pl.pc = "drop"
    /\ db' = [db EXCEPT ![pl.table_name] = NoTable]
    /\ pl' = [pl EXCEPT !.pc = "create"]
    /\ UNCHANGED notPull

\* app.py:114-130 and 137-139  CREATE TABLE ... AS SELECT * FROM df, or the
\* placeholder table of an empty source
pull_create ==
    /\ pl.pc = "create"
    /\ IF db[pl.table_name].exists
       THEN pl' = [pl EXCEPT !.pc = "done", !.result = E_EXISTS] /\ UNCHANGED db
       ELSE IF pl.all_rows > 0
       THEN /\ db' = [db EXCEPT ![pl.table_name] = Table(pl.table_name, 0, pl.all_rows, BaseCols)]
            /\ pl' = [pl EXCEPT !.pc = "verify"]
       ELSE /\ db' = [db EXCEPT ![pl.table_name] =
                         Table(pl.table_name, 0, 0, {"empty_placeholder"})]
            /\ pl' = [pl EXCEPT !.pc = "done", !.result = "loaded"]
    /\ UNCHANGED notPull

\* app.py:133-135  SELECT COUNT(*) of the table just created
pull_verify ==
    /\ pl.pc = "verify"
    /\ pl' = [pl EXCEPT !.pc = "done",
                        !.result = IF db[pl.table_name].exists THEN "loaded" ELSE E_DNE]
    /\ UNCHANGED <<notPull, db>>

pull_table == pull_fetch \/ pull_drop \/ pull_create \/ pull_verify

\* No pull_table
PullIdle == pl = IdlePull

\* A catalog after a pull that found race_training_dataset empty at the source
EmptyProdDb ==
    [PulledDb EXCEPT ![ProdTable] = Table(ProdTable, 0, 0, {"empty_placeholder"})]

\* Nothing but the rebuild pipeline is at work
OthersIdle == JobsIdle /\ SplitIdle /\ TransferIdle /\ PullIdle /\ GuessIdle /\ EloIdle /\ SnapIdle

\* The rebuild pipeline at rest, in a catalog after a first pull
RebuildIdle ==
    /\ status = FreshStatus
    /\ db \in {PulledDb, EmptyProdDb}
    /\ th = [t \in Threads |-> IdleThread]
    /\ nstarted = 0
    /\ response = "none"
    /\ sw = SwapIdle
    /\ scripts = [p \in 1..Len(PHASES) |-> <<>>]

\* The web process, pull and push jobs: the start requests for both kinds and
\* the jobs they start, in any interleaving
InitJobs == RebuildIdle /\ JobsIdle /\ SplitIdle /\ TransferIdle /\ PullIdle /\ GuessIdle /\ EloIdle /\ SnapIdle

NextJobs ==
    \/ start_sync_endpoint
    \/ start_push
    \/ \E j \in JobThreads : run_sync(j)
    \/ \E j \in JobThreads : run_push(j)

SpecJobs == InitJobs /\ [][NextJobs]_vars

\* sync_status as a pull leaves it that failed at its second table
AfterFailedSync ==
    [running |-> FALSE, current_table |-> None, tables_done |-> <<RacesTable>>,
     tables_total |-> TABLES, progress |-> "Complete!", progress_pct |-> 100,
     last_sync |-> Some(now), error |-> Some(<<ResultsTable, E_PULL>>)]

\* push_status as a push leaves it that failed at its table
AfterFailedPush ==
    [running |-> FALSE, current_table |-> None, tables_done |-> <<>>,
     tables_total |-> PUSHABLE, progress |-> "Push complete!", progress_pct |-> 100,
     error |-> Some(<<ProdTable, E_PUSH>>),
     results |-> <<[table |-> ProdTable, status |-> E_PUSH]>>,
     rows_pushed |-> 0, total_rows |-> 0]

\* The web process after an earlier job of either kind has ended, or none
InitJobsAgain ==
    /\ RebuildIdle
    /\ SplitIdle
    /\ TransferIdle
    /\ PullIdle
    /\ GuessIdle /\ EloIdle /\ SnapIdle
    /\ sync_status \in {SyncIdle, AfterFailedSync}
    /\ push_status \in {PushIdle, AfterFailedPush}
    /\ sync_threads = [j \in JobThreads |-> NoJob]
    /\ push_threads = [j \in JobThreads |-> NoJob]
    /\ sync_http = NoHttp
    /\ push_http = NoHttp

SpecJobsAgain == InitJobsAgain /\ [][NextJobs]_vars

\* The splitter alone: every script text of up to MaxTextLen pieces
InitSplit ==
    /\ RebuildIdle
    /\ db = PulledDb
    /\ JobsIdle
    /\ TransferIdle
    /\ PullIdle
    /\ GuessIdle /\ EloIdle /\ SnapIdle
    /\ sql_text \in Texts(Tokens, MaxTextLen)
    /\ split_out = NoSplit
    /\ resplit_out = NoSplit

NextSplit == split \/ resplit

SpecSplit == InitSplit /\ [][NextSplit]_vars

\* The splitter alone: longer script texts, of fewer pieces
InitSplitQuoted ==
    /\ RebuildIdle
    /\ db = PulledDb
    /\ JobsIdle
    /\ TransferIdle
    /\ PullIdle
    /\ GuessIdle /\ EloIdle /\ SnapIdle
    /\ sql_text \in Texts(QuoteTokens, MaxQuotedLen)
    /\ split_out = NoSplit
    /\ resplit_out = NoSplit

SpecSplitQuoted == InitSplitQuoted /\ [][NextSplit]_vars

\* push_table called from the command line or by run_push, one call after
\* another, for every local table of up to MaxPushRows rows
InitTransfer ==
    /\ RebuildIdle
    /\ db = PulledDb
    /\ JobsIdle
    /\ SplitIdle
    /\ PullIdle
    /\ GuessIdle /\ EloIdle /\ SnapIdle
    /\ df \in [columns : LocalColumns, win_odds : SeqsUpTo(Values, MaxPushRows)]
    /\ pg \in [cols : RemoteColumns, rows : {<<OldRow, OldRow>>}]
    /\ pt = IdlePush
    /\ npushes = 0
    /\ fx = IdleFix({})

NextTransfer == push_table

SpecTransfer == InitTransfer /\ [][NextTransfer]_vars

\* push_table and the fix_all_columns.py script on the same destination
\* table, in any interleaving, the rows of the local table all alike
InitSchema ==
    /\ RebuildIdle
    /\ db = PulledDb
    /\ JobsIdle
    /\ SplitIdle
    /\ PullIdle
    /\ GuessIdle /\ EloIdle /\ SnapIdle
    /\ df \in [columns : LocalColumns, win_odds : SeqsUpTo({Dec(500, 0)}, MaxPushRows)]
    /\ pg \in [cols : RemoteColumns, rows : {<<OldRow, OldRow>>}]
    /\ pt = IdlePush
    /\ npushes = 0
    /\ fx \in {IdleFix(r) : r \in Referenced}

NextSchema == push_table \/ fix_all_columns

SpecSchema == InitSchema /\ [][NextSchema]_vars

\* guess_column_type alone: every name of up to MaxWords words against every
\* SQL text of up to MaxDecls declarations
InitGuess ==
    /\ RebuildIdle
    /\ db = PulledDb
    /\ JobsIdle
    /\ SplitIdle
    /\ TransferIdle
    /\ PullIdle
    /\ EloIdle /\ SnapIdle
    /\ gc \in [done : {FALSE}, col_name : GuessNames,
                sql_content : SeqsUpTo(Declarations, MaxDecls), col_type : {""}]

NextGuess == guess

SpecGuess == InitGuess /\ [][NextGuess]_vars

\* The two ways to a push: POST /api/push with run_push in its thread, and
\* push_table called with any table name, for one local table of one row and a
\* destination that lacks a column of it
InitAllow ==
    /\ RebuildIdle
    /\ JobsIdle
    /\ SplitIdle
    /\ PullIdle
    /\ GuessIdle /\ EloIdle /\ SnapIdle
    /\ df = [columns |-> <<"race_id", "win_odds">>, win_odds |-> <<Dec(500, 0)>>]
    /\ pg = [cols |-> <<Column("legacy_note", "text", None, None), RaceId>>,
             rows |-> <<OldRow>>]
    /\ pt = IdlePush
    /\ npushes = 0
    /\ fx = IdleFix({})

NextAllow ==
    \/ start_push
    \/ \E j \in JobThreads : run_push(j)
    \/ push_table

SpecAllow == InitAllow /\ [][NextAllow]_vars

\* A destination whose track column was declared integer, where the local
\* table, when it has the column, holds text in it (dtype object)
ConflictingColumns ==
    {<<RaceId, Column("track", "integer", Some(32), Some(0)),
       Column("win_odds", "numeric", Some(5), Some(2))>>,
     <<Column("track", "integer", Some(32), Some(0)), RaceId>>}

InitConflict ==
    /\ RebuildIdle
    /\ JobsIdle
    /\ SplitIdle
    /\ PullIdle
    /\ GuessIdle /\ EloIdle /\ SnapIdle
    /\ df \in [columns : LocalColumns, win_odds : SeqsUpTo({Dec(500, 0), None}, MaxPushRows)]
    /\ pg \in [cols : ConflictingColumns, rows : {<<OldRow>>}]
    /\ pt = IdlePush
    /\ npushes = 0
    /\ fx = IdleFix({})

SpecConflict == InitConflict /\ [][NextTransfer]_vars

----------------------------------------------------------------------------
\* The web process, rebuild jobs: web_ui.py answers the start requests on the
\* event loop and every job it accepts runs in a thread of its own.

\* A catalog after a first pull, or with a required table missing; the shadow
\* and the backup come to exist as the jobs run.
Init ==
    /\ OthersIdle
    /\ status = FreshStatus
    /\ db \in {PulledDb, PartialDb}
    /\ th = [t \in Threads |-> IdleThread]
    /\ nstarted = 0
    /\ response = "none"
    /\ sw = SwapIdle
    /\ scripts \in ScriptSets(MaxStmts)

Next ==
    \/ start_rebuild
    \/ \E t \in Threads : run_rebuild(t)

Spec == Init /\ [][Next]_vars

----------------------------------------------------------------------------
\* The web process, one rebuild job and the swap requests that arrive while it
\* runs, before it or after it (web_ui.py:1271-1290 calls swap_tables on the
\* event loop and looks at no status).

InitSwap ==
    /\ OthersIdle
    /\ status = FreshStatus
    /\ db \in InitDbs
    /\ th = [t \in Threads |-> IF t = 1 THEN [IdleThread EXCEPT !.pc = "reset"] ELSE IdleThread]
    /\ nstarted = 1
    /\ response = "started"
    /\ sw = SwapIdle
    /\ scripts \in ScriptSets(MaxStmts)

NextSwap ==
    \/ \E t \in Threads : run_rebuild(t)
    \/ swap_begin
    \/ swap_tables

SpecSwap == InitSwap /\ [][NextSwap]_vars

\* The same with a pull in the same process: run_sync's thread calls
\* pull_table while the rebuild thread runs and a swap is asked for.
InitMix ==
    /\ JobsIdle
    /\ SplitIdle
    /\ TransferIdle
    /\ PullIdle
    /\ GuessIdle /\ EloIdle /\ SnapIdle
    /\ status = FreshStatus
    /\ db \in {PulledDb, SwappedDb}
    /\ th = [t \in Threads |-> IF t = 1 THEN [IdleThread EXCEPT !.pc = "reset"] ELSE IdleThread]
    /\ nstarted = 1
    /\ response = "started"
    /\ sw = SwapIdle
    /\ scripts \in ScriptSets(MaxStmts)

NextMix ==
    \/ \E t \in Threads : run_rebuild(t)
    \/ swap_begin
    \/ swap_tables
    \/ pull_table

SpecMix == InitMix /\ [][NextMix]_vars

----------------------------------------------------------------------------
\* The command line: python rebuild_runner.py rebuild | swap
\* (rebuild_runner.py:356-364), one command per process, and DuckDB lets no
\* second process write the file meanwhile.

InitCli ==
    /\ OthersIdle
    /\ scripts \in ScriptSets(MaxStmtsCli)
    /\ status = FreshStatus
    /\ db \in InitDbs
    /\ nstarted = 1
    /\ response = "none"
    /\ \/ /\ th = [t \in Threads |->
                     IF t = 1 THEN [IdleThread EXCEPT !.pc = "reset"] ELSE IdleThread]
          /\ sw = SwapIdle
       \/ /\ th = [t \in Threads |-> IdleThread]
          /\ sw = [SwapIdle EXCEPT !.pc = "connect"]

NextCli ==
    \/ \E t \in Threads : run_rebuild(t)
    \/ swap_tables

SpecCli == InitCli /\ [][NextCli]_vars

\* run_rebuild(skip_phases) called once, with any set of phase numbers
InitSkip ==
    /\ OthersIdle
    /\ scripts \in ScriptSets(MaxStmtsCli)
    /\ status = FreshStatus
    /\ db \in InitDbs
    /\ nstarted = 1
    /\ response = "none"
    /\ \E skip_phases \in SUBSET (1..Len(PHASES)) :
          th = [t \in Threads |->
                  IF t = 1 THEN [IdleThread EXCEPT !.pc = "reset", !.skip = skip_phases]
                  ELSE IdleThread]
    /\ sw = SwapIdle

NextSkip == \E t \in Threads : run_rebuild(t)

SpecSkip == InitSkip /\ [][NextSkip]_vars

\* run_rebuild called once in any catalog: each of the three required tables,
\* the shadow and the backup is there or not
Catalogs ==
    {c \in [TableNames -> {NoTable} \cup {Table(n, 0, 1, BaseCols) : n \in TableNames}] :
        \A n \in TableNames : c[n].exists => c[n].origin = n}

InitMissing ==
    /\ OthersIdle
    /\ scripts \in ScriptSets(MaxStmts)
    /\ status = FreshStatus
    /\ db \in Catalogs
    /\ nstarted = 1
    /\ response = "none"
    /\ th = [t \in Threads |-> IF t = 1 THEN [IdleThread EXCEPT !.pc = "reset"] ELSE IdleThread]
    /\ sw = SwapIdle

SpecMissing == InitMissing /\ [][NextSkip]_vars

\* The web process, one rebuild job and the readers of its status: GET
\* /api/rebuild/status is answered on the event loop while the job's thread
\* runs.
InitSnapshot ==
    /\ OthersIdle
    /\ scripts \in ScriptSets(MaxStmts)
    /\ status = FreshStatus
    /\ db \in {PulledDb, SwappedDb}
    /\ nstarted = 1
    /\ response = "started"
    /\ th = [t \in Threads |-> IF t = 1 THEN [IdleThread EXCEPT !.pc = "reset"] ELSE IdleThread]
    /\ sw = SwapIdle

NextSnapshot ==
    \/ \E t \in Threads : run_rebuild(t)
    \/ get_rebuild_status

SpecSnapshot == InitSnapshot /\ [][NextSnapshot]_vars

----------------------------------------------------------------------------
\* The web process and its four kinds of background job, run to their end.
\* The jobs of one kind share a status dictionary and the kinds share none,
\* so a run takes requests of one kind: the first request that is let in
\* decides which. The scripts hold one INSERT in phase 1, which can end a
\* run_rebuild either way, and a pull request names no tables, which makes the
\* job pull the tables of TABLES.

NoSyncYet == sync_http = NoHttp
NoPushYet == push_http = NoHttp
NoEloYet == elo_http.started = 0
NoRebuildYet == nstarted = 0

sync_requests ==
    /\ NoPushYet /\ NoEloYet /\ NoRebuildYet
    /\ start_sync_endpoint
    /\ \A j \in JobThreads : sync_threads'[j].tables = None
push_requests == NoSyncYet /\ NoEloYet /\ NoRebuildYet /\ start_push
elo_requests == NoSyncYet /\ NoPushYet /\ NoRebuildYet /\ start_elo_rebuild
rebuild_requests == NoSyncYet /\ NoPushYet /\ NoEloYet /\ start_rebuild

InitEnds ==
    /\ OthersIdle
    /\ status = FreshStatus
    /\ db \in {PulledDb, PartialDb}
    /\ th = [t \in Threads |-> IdleThread]
    /\ nstarted = 0
    /\ response = "none"
    /\ sw = SwapIdle
    /\ scripts = [p \in 1..Len(PHASES) |-> IF p = 1 THEN <<"INSERT">> ELSE <<>>]

NextEnds ==
    \/ sync_requests
    \/ push_requests
    \/ elo_requests
    \/ rebuild_requests
    \/ \E j \in JobThreads : run_sync(j)
    \/ \E j \in JobThreads : run_push(j)
    \/ \E j \in JobThreads : run_elo_rebuild(j)
    \/ \E t \in Threads : run_rebuild(t)

\* A thread that can take a step takes one: the interpreter switches between
\* the runnable threads, and a database call returns or raises. Nothing is
\* assumed of the requests.
ThreadsRun ==
    /\ \A j \in JobThreads : WF_vars(run_sync(j))
    /\ \A j \in JobThreads : WF_vars(run_push(j))
    /\ \A j \in JobThreads : WF_vars(run_elo_rebuild(j))
    /\ \A t \in Threads : WF_vars(run_rebuild(t))

SpecEnds == InitEnds /\ [][NextEnds]_vars /\ ThreadsRun

----------------------------------------------------------------------------
\* Properties

\* What a thread has executed of phase p
PhaseLog(t, p) == SelectSeq(th[t].log, LAMBDA e : e.phase = p)

\* A statement that raised, other than the missing column of a DROP COLUMN
NonBenign(e) == e.out # "ok" /\ ~(e.out = E_DNE /\ e.kind = "DROP COLUMN")

Count(seq, P(_)) == Len(SelectSeq(seq, P))

IsPrefix(a, b) == Len(a) <= Len(b) /\ \A j \in 1..Len(a) : a[j] = b[j]

\* C1: at most one thread that runs run_rebuild is alive at any moment,
\* whatever the start requests.
C1_OneRebuildThread == Cardinality({t \in Threads : Alive(t)}) <= 1

\* C2: while the state is 'running' no step starts a thread, and a start
\* request that is answered is answered 'already_running' and leaves the status
\* record (and every thread) as it was.
C2_StartWhileRunning ==
    [][status.state = "running" =>
          /\ nstarted' = nstarted
          /\ response' # response =>
                (response' = "already_running" /\ status' = status /\ th' = th)]_vars

C2_Witness == status.state = "running" /\ response = "already_running"

\* C3: when swap_tables counts 0 rows in race_training_dataset_new it ends at
\* once with the error 'is empty - cannot swap', and the step changes no table:
\* no DROP and no RENAME is issued.
C3_EmptyShadowRefused ==
    [][(sw.pc = "count" /\ db[NewTable].exists /\ db[NewTable].rows = 0 /\ sw' # sw) =>
          (sw'.pc = "done" /\ sw'.result = E_EMPTY /\ db' = db)]_vars

C3_Witness ==
    sw.pc = "done" /\ sw.result = E_EMPTY /\ db[NewTable].exists /\ db[NewTable].rows = 0

\* C4: the step that completes a successful swap_tables leaves
\* race_training_dataset with the table that was race_training_dataset_new,
\* race_training_dataset_old with the table the first rename moved away from
\* race_training_dataset (whatever _old held before), and no
\* race_training_dataset_new; and the first rename moves production as it is.
C4_SwapPromotes ==
    [][/\ (sw.pc = "rename_new" /\ sw'.result = "swapped") =>
            /\ db[NewTable].exists
            /\ db'[ProdTable] = db[NewTable]
            /\ sw.moved.exists
            /\ db'[OldTable] = sw.moved
            /\ ~db'[NewTable].exists
       /\ (sw.pc = "rename_prod" /\ sw'.pc = "rename_new") =>
            /\ db[ProdTable].exists
            /\ sw'.moved = db[ProdTable]
            /\ db'[OldTable] = db[ProdTable]]_vars

\* A swap has succeeded where a backup of an earlier swap existed
C4_Witness ==
    /\ sw.result = "swapped"
    /\ db[ProdTable].origin = NewTable
    /\ db[OldTable].origin = ProdTable
    /\ ~db[NewTable].exists

FatalLog(t) ==
    SelectSeq(th[t].log, LAMBDA e : e.phase = 1 /\ NonBenign(e) /\ e.kind = "INSERT")

C6_ResultOk(t, r) ==
    LET L == PhaseLog(t, r.phase) IN
    /\ r.statements_total = Len(scripts[r.phase])
    /\ Len(L) = r.statements_total
    /\ \A j \in 1..Len(L) : L[j].stmt = j /\ L[j].kind = scripts[r.phase][j]
    /\ r.statements_completed = Count(L, LAMBDA e : ~NonBenign(e))
    /\ Len(r.errors) = Count(L, NonBenign)
    /\ \A j \in 1..Len(L) :
          Cardinality({m \in DOMAIN r.errors : r.errors[m].statement = j})
             = IF NonBenign(L[j]) THEN 1 ELSE 0
    /\ \A m \in DOMAIN r.errors :
          /\ r.errors[m].statement \in 1..Len(L)
          /\ r.errors[m].error = L[r.errors[m].statement].out

C6_PhaseIsolation ==
    \A j \in DOMAIN status.phase_results : C6_ResultOk(1, status.phase_results[j])

\* Three statements, the second fails: two completed, one error entry for
\* statement 2, statement 3 executed
C6_Witness ==
    \E j \in DOMAIN status.phase_results :
        LET r == status.phase_results[j]
            L == PhaseLog(1, r.phase)
        IN /\ r.statements_total = 3
           /\ Len(L) = 3
           /\ ~NonBenign(L[1]) /\ NonBenign(L[2]) /\ L[3].out = "ok"
           /\ r.statements_completed = 2
           /\ Len(r.errors) = 1
           /\ r.errors[1].statement = 2

\* C7: the state moves only idle -> running, running -> completed and
\* running -> error, and completed or error -> idle by the reset of a new job.
LegalMove(a, b) ==
    \/ a = b
    \/ <<a, b>> \in {<<"idle", "running">>, <<"running", "completed">>,
                    <<"running", "error">>, <<"completed", "idle">>, <<"error", "idle">>}

C7_StateMachine == [][LegalMove(status.state, status'.state)]_vars

\* C8: every snapshot get_status can return is consistent: state 'error' comes
\* with an error message, state 'completed' or 'error' with completed_at.
C8_SnapshotConsistent ==
    /\ get_status.state = "error" => get_status.error # None
    /\ get_status.state \in {"completed", "error"} => get_status.completed_at # None

\* C9: after run_rebuild has raised, and as long as no start request has been
\* accepted since, the state is 'error' and error is the message of the exception.
C9_ErrorStays ==
    \A t \in Threads :
        (th[t].pc = "raised" /\ th[t].seen = nstarted) =>
            (status.state = "error" /\ status.error = Some(th[t].exc))

\* The statements of the three scripts in the order of the declaration
AllStatements ==
    LET S(p) == [j \in 1..Len(scripts[p]) |-> <<p, j>>] IN S(1) \o S(2) \o S(3)

Executed(t) == [k \in DOMAIN th[t].log |-> <<th[t].log[k].phase, th[t].log[k].stmt>>]

\* C10: what the job has executed is a prefix of the statements of phase 1,
\* then 2, then 3, each in split order; phase_results holds the results of
\* phases 1..k in this order, one each; a result is there only when all the
\* statements of its phase have been executed, and a statement is executed only
\* when the results of all earlier phases are there; state 'completed' comes
\* with one result per declared phase.
C10_Order ==
    /\ IsPrefix(Executed(1), AllStatements)
    /\ Len(status.phase_results) <= Len(PHASES)
    /\ \A j \in DOMAIN status.phase_results :
          /\ status.phase_results[j].phase = j
          /\ Len(PhaseLog(1, j)) = Len(scripts[j])
    /\ \A k \in DOMAIN th[1].log : Len(status.phase_results) >= th[1].log[k].phase - 1
    /\ status.state = "completed" => Len(status.phase_results) = Len(PHASES)

\* A completed job whose three scripts each held a statement
C10_Witness ==
    /\ status.state = "completed"
    /\ Len(th[1].log) = 3
    /\ \A p \in 1..3 : Len(scripts[p]) = 1

\* The names of INTERMEDIATE_COLUMNS
IntermediateSet == {INTERMEDIATE_COLUMNS[k] : k \in DOMAIN INTERMEDIATE_COLUMNS}

\* The setup of run_rebuild is over and the job has executed no statement yet
SetupDone(t) == th[t].pc \in {"phase", "phase_name", "stmt", "append"} /\ th[t].log = <<>>

\* C11: once the setup of run_rebuild is over and until the first statement of
\* a phase runs, race_training_dataset_new exists, is the table this job
\* created (no earlier shadow), has no rows, and its columns are the columns of
\* race_training_dataset plus the names of INTERMEDIATE_COLUMNS.
C11_FreshShadow ==
    \A t \in Threads :
        SetupDone(t) =>
            /\ db[NewTable].exists
            /\ db[NewTable].origin = "rebuild" /\ db[NewTable].job = t
            /\ db[NewTable].rows = 0
            /\ db[NewTable].cols = db[ProdTable].cols \cup IntermediateSet

\* The setup is over in a catalog that held an earlier shadow with rows and a
\* column of its own, and production already had one of the intermediate columns
C11_Witness ==
    /\ SetupDone(1)
    /\ th[1].pc = "stmt"
    /\ db[OldTable].exists
    /\ "position_800m" \in db[ProdTable].cols
    /\ "speed_rating" \notin db[NewTable].cols
    /\ "speed_figure" \in db[NewTable].cols

\* The job has met a failure in phase 2 or 3: a statement that raised a
\* non-benign error, or a script file that is not there
LaterStatementFailure(t) ==
    \E k \in DOMAIN th[t].log : th[t].log[k].phase >= 2 /\ NonBenign(th[t].log[k])
LaterFileMissing(t) == th[t].exc = E_NOFILE /\ Len(status.phase_results) >= 1

\* C12, as stated: a job that has met a failure in phase 2 or 3 is never in
\* state 'error' and never in its except clause.
C12_LaterFailureNeverError ==
    \A t \in Threads :
        (LaterStatementFailure(t) \/ LaterFileMissing(t)) =>
            /\ th[t].pc \notin {"except_state", "except_error", "except_completed_at", "raised"}
            /\ status.state # "error"

\* C12, amended: a statement of phase 2 or 3 that raises never takes the job to
\* its except clause by itself: the only exception after it is the missing
\* script file of a later phase; the job that ends otherwise ends 'completed',
\* with every statement of every phase executed and the failure listed, under
\* its index, in the result of its phase.
C12_LaterStatementFailureContinues ==
    \A t \in Threads :
        LaterStatementFailure(t) =>
            /\ th[t].pc \in {"except_state", "except_error", "except_completed_at", "raised"}
                  => th[t].exc = E_NOFILE
            /\ th[t].pc = "raised" => status.error = Some(E_NOFILE)
            /\ th[t].pc = "done" =>
                  /\ status.state = "completed"
                  /\ \A p \in 1..Len(PHASES) : Len(PhaseLog(t, p)) = Len(scripts[p])
                  /\ \A k \in DOMAIN th[t].log :
                        LET e == th[t].log[k] IN
                        (e.phase >= 2 /\ NonBenign(e)) =>
                            \E m \in DOMAIN status.phase_results[e.phase].errors :
                                /\ status.phase_results[e.phase].errors[m].statement = e.stmt
                                /\ status.phase_results[e.phase].errors[m].error = e.out

\* A job is 'completed' after a failed statement of phase 2 that was followed by
\* another statement of phase 2
C12_Witness ==
    /\ th[1].pc = "done"
    /\ status.state = "completed"
    /\ Len(scripts[2]) >= 2
    /\ NonBenign(PhaseLog(1, 2)[1])
    /\ Len(status.phase_results[2].errors) >= 1

\* C13: the step of swap_tables that renames race_training_dataset_new to
\* race_training_dataset never moves the table of a rebuild job that is still
\* running (its state 'running') or that ended in its except clause (state
\* 'error'): the job that created the table has ended 'completed'.
C13_SwapOnlyAfterValidation ==
    [][(sw.pc = "rename_new" /\ sw'.result = "swapped" /\ db[NewTable].origin = "rebuild") =>
          /\ th[db[NewTable].job].pc = "done"
          /\ status.state = "completed"]_vars

\* C14: for each of the kinds pull and push, at most one thread of that kind
\* is alive at any moment, whatever the start requests.
C14_OneJobPerKind ==
    /\ Cardinality({j \in JobThreads : JobAlive(sync_threads[j])}) <= 1
    /\ Cardinality({j \in JobThreads : JobAlive(push_threads[j])}) <= 1

\* C15: splitting the statements of a text, joined by line feeds, gives the
\* same statements again.
C15_SplitIdempotent ==
    resplit_out.done => resplit_out.statements = split_out.statements

\* Two statements came out of a text that held more than them (a blank or a
\* comment line, or white space around a statement), and were split again
C15_Witness ==
    /\ resplit_out.done
    /\ Len(split_out.statements) >= 2
    /\ Join(split_out.statements, LF) # sql_text

\* How SQL reads a text up to, not including, position pos: in the code, in a
\* single- or double-quoted literal, or in a line comment. -- starts a comment
\* only outside a literal and a comment ends with its line; a quote after a
\* backslash is taken the way split_sql_statements takes it, as no quote.
RECURSIVE SqlStateAt(_, _, _, _)
SqlStateAt(cs, pos, k, st) ==
    IF k >= pos THEN st
    ELSE LET c == cs[k]
             quote == c \in {"'", "\""} /\ (k = 1 \/ cs[k - 1] # "\\")
             next == CASE st = "code" /\ quote -> IF c = "'" THEN "single" ELSE "double"
                       [] st = "code" /\ c = "-" /\ k < Len(cs) /\ cs[k + 1] = "-" -> "comment"
                       [] st = "single" /\ quote /\ c = "'" -> "code"
                       [] st = "double" /\ quote /\ c = "\"" -> "code"
                       [] st = "comment" /\ c = LF -> "code"
                       [] OTHER -> st
         IN SqlStateAt(cs, pos, k + 1, next)

\* The position in the text of the last character of line k that is no space
RECURSIVE LineStart(_, _)
LineStart(lines, k) == IF k = 1 THEN 0 ELSE LineStart(lines, k - 1) + Len(lines[k - 1]) + 1
EndOfLine(lines, k) ==
    LineStart(lines, k) +
       (CHOOSE j \in DOMAIN lines[k] :
            ~IsSpace(lines[k][j]) /\ \A n \in (j + 1)..Len(lines[k]) : IsSpace(lines[k][n]))

\* C16: no statement is closed at a ';' that SQL reads as part of an open
\* single- or double-quoted literal.
C16_NoSplitInsideLiteral ==
    split_out.done =>
        \A e \in DOMAIN split_out.ends :
            SqlStateAt(sql_text, EndOfLine(SplitOn(sql_text, LF), split_out.ends[e]), 1, "code")
                \notin {"single", "double"}

\* C17: schema sync is additive only. A step of push_table or of
\* fix_all_columns.py leaves every column the destination had where it was,
\* with its type, precision and scale; a schema sync that reads a destination
\* lacking no local column goes on without an ALTER, and so does a run of the
\* script that finds every name it would add; an ALTER is issued nowhere but
\* in the loops of the two.
C17_SchemaSyncAdditive ==
    [][/\ Len(pg'.cols) >= Len(pg.cols)
       /\ \A i \in DOMAIN pg.cols : pg'.cols[i] = pg.cols[i]
       /\ (pt.pc = "schema" /\ pt' # pt /\ Range(df.columns) \subseteq remote_columns(pg.cols))
             => pt'.pc = "prepare" /\ pt'.alters = <<>>
       /\ (pt'.alters # pt.alters /\ pt'.alters # <<>>) => pt.pc = "alter"
       /\ (fx.pc = "missing" /\ fx' # fx
              /\ (fx.all_referenced_columns \ (PgNames \cup ShortNames)) \subseteq fx.existing_columns)
             => fx'.pc = "summary" /\ fx'.alters = <<>>
       /\ (fx'.alters # fx.alters /\ fx'.alters # <<>>) => fx.pc = "batch"]_vars

\* C17 witness: a second push and a second run of the script, both after
\* columns were added, have gone through without an ALTER
C17_Witness ==
    /\ npushes = 2
    /\ pt.pc = "done"
    /\ Len(pt.common_cols) = 4
    /\ pt.alters = <<>>
    /\ "track" \in remote_columns(pg.cols)
    /\ fx.runs = 2
    /\ fx.pc = "done"
    /\ fx.alters = <<>>
    /\ "win_count" \in remote_columns(pg.cols)
    /\ "legacy_note" \in remote_columns(pg.cols)

\* The magnitude of x is above 10^(P-S) - 10^(-S) = (10^P - 1) / 10^S
Exceeds(x, P, S) == x # None /\ Abs(x[1]) * Pow10(S) > (Pow10(P) - 1) * Unit

\* The destination column is numeric(P,S) and the cell of row r is out of its range
OutOfRange(rc, r) ==
    /\ rc.data_type = "numeric"
    /\ rc.prec # None
    /\ rc.scale # None
    /\ Exceeds(Cell(df, rc.name, r), rc.prec[1], rc.scale[1])

\* The columns of the destination that the push sends
Pushed == {i \in DOMAIN pt.remote_col_info : pt.remote_col_info[i].name \in Range(pt.common_cols)}

\* push_table has clamped and not failed since
Prepared ==
    \/ pt.pc \in {"copy", "commit", "progress", "verify"}
    \/ pt.pc = "done" /\ pt.common_cols # <<>>

ClampedRight ==
    Prepared =>
        /\ \A i \in Pushed : \A r \in 1..pt.local_rows :
              pt.out[pt.remote_col_info[i].name][r] =
                  IF OutOfRange(pt.remote_col_info[i], r) THEN None
                  ELSE Cell(df, pt.remote_col_info[i].name, r)
        /\ pt.clamped_total =
              Cardinality({ir \in Pushed \X (1..pt.local_rows) :
                              OutOfRange(pt.remote_col_info[ir[1]], ir[2])})
        /\ \A j \in DOMAIN pg.rows : \A c \in Range(pt.common_cols) :
              pg.rows[j][c] = pt.out[c][j]

\* C18: for every pushed column whose destination type is numeric(P,S), a
\* value of magnitude above 10^(P-S) - 10^(-S) leaves as null and is counted
\* once, every other value leaves and arrives unchanged, and the clamping
\* step never ends the push.
C18_ClampToNull ==
    [][/\ ClampedRight'
       /\ (pt.pc = "prepare" /\ pt' # pt) => pt'.pc = "copy"]_vars

\* C18 witness: a push into numeric(5,2) has sent 1234.56 as null, counted
\* once, and 500.00 as it was
C18_Witness ==
    /\ pt.pc = "done"
    /\ pt.common_cols # <<>>
    /\ \E i \in Pushed : pt.remote_col_info[i] = Column("win_odds", "numeric", Some(5), Some(2))
    /\ df.win_odds = <<Dec(1234, 5600), Dec(500, 0)>>
    /\ pt.clamped_total = 1
    /\ Len(pg.rows) = 2
    /\ pg.rows[1]["win_odds"] = None
    /\ pg.rows[2]["win_odds"] = Dec(500, 0)

\* The chunks it takes to send n rows
Chunks(n) == (n + CHUNK_SIZE - 1) \div CHUNK_SIZE

\* C19: a push of N > 0 rows with a callback calls it with (0, N) before it
\* writes a chunk, then once after each committed chunk with the rows sent so
\* far: the counts rise strictly, none is above the rows committed at the
\* destination, and the last call of a push that ends well is (N, N).
C19_ProgressCalls ==
    (pt.progress_callback /\ pt.local_rows > 0) =>
        LET N == pt.local_rows
            calls == pt.calls
        IN  /\ (pt.tx_rows # <<>> \/ pt.rows_sent > 0) => calls # <<>>
            /\ calls # <<>> => calls[1] = <<0, N>>
            /\ \A i \in DOMAIN calls :
                  /\ calls[i][2] = N
                  /\ calls[i][1] = Min((i - 1) * CHUNK_SIZE, N)
                  /\ calls[i][1] <= Len(pg.rows)
                  /\ i > 1 => calls[i][1] > calls[i - 1][1]
            /\ calls # <<>> =>
                  Len(calls) = 1 + Chunks(pt.rows_sent) - (IF pt.pc = "progress" THEN 1 ELSE 0)
            /\ pt.pc = "done" => calls[Len(calls)] = <<N, N>> /\ Len(pg.rows) = N

\* C19 witness: a push of three rows in chunks of CHUNK_SIZE has ended well
\* after a call for the start and a call for each chunk
C19_Witness ==
    /\ pt.pc = "done"
    /\ pt.progress_callback
    /\ pt.local_rows = MaxPushRows
    /\ Len(pt.calls) = 1 + Chunks(MaxPushRows)
    /\ Len(pt.calls) > 2
    /\ pt.calls[2] = <<CHUNK_SIZE, MaxPushRows>>
    /\ pt.calls[Len(pt.calls)] = <<MaxPushRows, MaxPushRows>>

\* C20: the column list of the COPY is the local columns that the
\* destination has after the schema sync, in local order: no column that
\* only the destination has, and every local column.
C20_CommonColumns ==
    Prepared =>
        /\ Range(pt.common_cols) = Range(df.columns) \cap remote_columns(pg.cols)
        /\ pt.common_cols = df.columns
        /\ \A c \in remote_columns(pg.cols) \ Range(df.columns) : c \notin Range(pt.common_cols)
        /\ \A j \in DOMAIN pg.rows : DOMAIN pg.rows[j] = Range(pt.common_cols)
        /\ \A j \in DOMAIN pt.tx_rows : DOMAIN pt.tx_rows[j] = Range(pt.common_cols)

\* C20 witness: a push has ended well that sent its three columns in local
\* order, one of them added by the schema sync, to a destination that has
\* legacy_note and lists race_id before the others
C20_Witness ==
    /\ pt.pc = "done"
    /\ df.columns = <<"win_odds", "track", "race_id">>
    /\ pt.common_cols = <<"win_odds", "track", "race_id">>
    /\ pt.alters # <<>>
    /\ Len(pg.rows) > 0
    /\ pg.cols[1].name = "legacy_note"
    /\ pg.cols[2].name = "race_id"
    /\ "track" \in remote_columns(pg.cols)

\* C21: when the transfer of a table fails in the one pull or push job that
\* was started, the table is not in tables_done, and once the job has stopped
\* the record does not show the completion text or 100 percent next to the error.
C21_NoFailureShownComplete ==
    Accepted <= 1 =>
        /\ \A k \in DOMAIN sync_status.tables_done :
              sync_status.error # Some(<<sync_status.tables_done[k], E_PULL>>)
        /\ \A k \in DOMAIN push_status.tables_done :
              push_status.error # Some(<<push_status.tables_done[k], E_PUSH>>)
        /\ (sync_threads[1].pc = "done" /\ sync_status.error # None)
              => sync_status.progress # "Complete!" /\ sync_status.progress_pct # 100
        /\ (push_threads[1].pc = "done" /\ push_status.error # None)
              => push_status.progress # "Push complete!" /\ push_status.progress_pct # 100

\* The record a failed pull leaves is one the web process reaches
AfterFailedSyncReached ==
    /\ [sync_status EXCEPT !.error = None] = [AfterFailedSync EXCEPT !.error = None]
    /\ sync_status.error # None
    /\ \A j \in JobThreads : ~JobAlive(sync_threads[j])

\* The record a failed push leaves is one the web process reaches
AfterFailedPushReached ==
    /\ [push_status EXCEPT !.error = None] = [AfterFailedPush EXCEPT !.error = None]
    /\ push_status.error # None
    /\ \A j \in JobThreads : ~JobAlive(push_threads[j])

\* C22: while the one job started after an earlier job of its kind has ended
\* is between its first write (running = True) and its first table, the
\* record shows nothing of the earlier job: error is None, the lists are
\* empty, the percentage is 0, and the text is not one a finished job leaves.
C22_NoValueOfPreviousRun ==
    Accepted <= 1 =>
        /\ (sync_status.running /\ sync_threads[1].pc \in {"reset", "totals", "begin"}
               /\ sync_threads[1].i <= 1)
              => /\ sync_status.error = None
                 /\ sync_status.tables_done = <<>>
                 /\ sync_status.progress_pct = 0
                 /\ sync_status.progress \notin {"Complete!", "Error"}
                 /\ sync_status.tables_total \in {<<>>, sync_threads[1].todo}
        /\ (push_status.running /\ push_threads[1].pc \in {"reset", "totals", "begin"}
               /\ push_threads[1].i <= 1)
              => /\ push_status.error = None
                 /\ push_status.tables_done = <<>>
                 /\ push_status.results = <<>>
                 /\ push_status.progress_pct = 0
                 /\ push_status.progress \notin {"Push complete!", "Error"}

\* pull_table has dropped race_training_dataset and not yet created it again
PullBetween == pl.table_name = ProdTable /\ pl.pc = "create"

\* swap_tables is at one of its two renames
SwapRenaming == sw.pc \in {"rename_prod", "rename_new"}

\* run_rebuild is at its copy of production's schema
CopyingSchema == \E t \in Threads : th[t].pc = "create_new"

\* C23: a pull that drops and recreates race_training_dataset is never in
\* the middle of it while swap_tables is at its renames or while the rebuild
\* is at its copy of production's schema.
C23_NoInterleavedMutation ==
    ~(PullBetween /\ (SwapRenaming \/ CopyingSchema))

\* The tables a push may write at the destination
Allowlist == {ProdTable}

Family(data_type) ==
    CASE data_type \in {"bigint", "integer", "smallint", "numeric", "double precision"} -> "number"
      [] data_type = "boolean" -> "boolean"
      [] data_type = "timestamp without time zone" -> "timestamp"
      [] OTHER -> "text"

\* The local columns the destination has with a type of another kind than
\* the type the local values would be declared with
Conflicts(columns, remote_col_info) ==
    {c \in Range(columns) :
        \E i \in DOMAIN remote_col_info :
            /\ remote_col_info[i].name = c
            /\ Family(remote_col_info[i].data_type)
                 # Family(ColumnInfo(c, pg_type_for_series(dtype(c))).data_type)}

\* C25: a column that both sides have with incompatible types is not
\* altered, is left out of the columns transferred, and is named in the
\* result of the push.
C25_ConflictSetAside ==
    LET conflicts == Conflicts(df.columns, pg.cols)
    IN  /\ \A i \in DOMAIN pg.cols :
              pg.cols[i].name = "track" => pg.cols[i].data_type = "integer"
        /\ pt.pc \in {"copy", "commit", "progress", "verify", "done"}
              => Range(pt.common_cols) \cap conflicts = {}
        /\ (pt.pc = "done" /\ conflicts # {})
              => /\ "conflicts" \in DOMAIN pt.result[1]
                 /\ pt.result[1].conflicts = conflicts

\* The statements of phase p that run_phase has executed, in order
ExecutedOf(log, p) == SelectSeq(log, LAMBDA e : e.phase = p)

\* C26: of a phase in the skip set no statement is executed and the result
\* appended in its position is the skipped one (skipped = true, zero counts,
\* no errors); the other phases run in order, each with all its statements.
C26_SkippedPhases ==
    LET r == th[1]
        results == status.phase_results
    IN  /\ \A k \in DOMAIN r.log :
              /\ r.log[k].phase \notin r.skip
              /\ k > 1 => r.log[k - 1].phase <= r.log[k].phase
        /\ \A k \in DOMAIN results :
              /\ results[k].phase = k
              /\ k \in r.skip
                    => /\ results[k].skipped
                       /\ results[k].statements_total = 0
                       /\ results[k].statements_completed = 0
                       /\ results[k].errors = <<>>
              /\ k \notin r.skip
                    => /\ ~results[k].skipped
                       /\ results[k].statements_total = Len(scripts[k])
                       /\ Len(ExecutedOf(r.log, k)) = Len(scripts[k])
                       /\ \A i \in 1..Len(scripts[k]) :
                             /\ ExecutedOf(r.log, k)[i].stmt = i
                             /\ ExecutedOf(r.log, k)[i].kind = scripts[k][i]
        /\ status.state = "completed" => Len(results) = Len(PHASES)

\* C26 witness: a rebuild asked to skip phase 2, whose script has a
\* statement, is complete with statements of phases 1 and 3 executed
C26_Witness ==
    /\ th[1].skip = {2}
    /\ scripts[2] # <<>>
    /\ status.state = "completed"
    /\ Len(status.phase_results) = 3
    /\ status.phase_results[2].skipped
    /\ ExecutedOf(th[1].log, 1) # <<>>
    /\ ExecutedOf(th[1].log, 3) # <<>>

\* A line the splitter keeps: not blank, and not a comment line
IsKept(line) == Strip(line) # <<>> /\ ~StartsWithComment(Strip(line))

\* The kept lines among lines a+1..b, in order
KeptLines(lines, a, b) ==
    LET idx == SelectSeq([k \in 1..(b - a) |-> a + k], LAMBDA k : IsKept(lines[k]))
    IN  [j \in DOMAIN idx |-> lines[idx[j]]]

\* The quotes of a trimmed line that delimit a literal: those that no
\* backslash stands before
Delimiters(stripped) ==
    LET idx == SelectSeq([i \in 1..Len(stripped) |-> i],
                         LAMBDA i : /\ stripped[i] \in {"'", "\""}
                                    /\ (i = 1 \/ stripped[i - 1] # "\\"))
    IN  [j \in DOMAIN idx |-> stripped[idx[j]]]

\* The delimiters of the kept lines up to line k
DelimitersUpTo(lines, k) ==
    LET kept == KeptLines(lines, 0, k)
    IN  Flatten([j \in DOMAIN kept |-> Delimiters(Strip(kept[j]))])

\* A literal is open after the delimiters qs: the first one opens a literal
\* that the next one of the same kind closes, and so on
RECURSIVE LiteralOpen(_)
LiteralOpen(qs) ==
    IF qs = <<>> THEN FALSE
    ELSE IF \A j \in 2..Len(qs) : qs[j] # qs[1] THEN TRUE
    ELSE LET j == CHOOSE j \in 2..Len(qs) : qs[j] = qs[1] /\ \A m \in 2..(j - 1) : qs[m] # qs[1]
         IN  LiteralOpen(SubSeq(qs, j + 1, Len(qs)))

\* The lines at which a statement has to end
Terminators(lines) ==
    {k \in DOMAIN lines : /\ IsKept(lines[k])
                          /\ EndsWithSemicolon(Strip(lines[k]))
                          /\ ~LiteralOpen(DelimitersUpTo(lines, k))}

\* C27: split_sql_statements ends a statement exactly at each kept line whose
\* trimmed text ends with ';' while no literal is open; a statement is the
\* kept lines since the statement before, blank and '--' lines dropped; what
\* follows the last terminator is a final statement; every text, with
\* unbalanced quotes too, is split without an exception.
C27_SplitContract ==
    LET lines == SplitOn(sql_text, LF)
        ends == split_out.ends
        n == Len(ends)
        last == IF n = 0 THEN 0 ELSE ends[n]
        rest == KeptLines(lines, last, Len(lines))
    IN  /\ \A j \in DOMAIN split_sql_statements(sql_text) :
              split_sql_statements(sql_text)[j] # <<>>
        /\ split_out.done =>
              /\ Range(ends) = Terminators(lines)
              /\ \A j \in 2..n : ends[j - 1] < ends[j]
              /\ Len(split_out.statements) = n + (IF rest = <<>> THEN 0 ELSE 1)
              /\ \A j \in 1..n :
                    split_out.statements[j]
                      = Strip(Join(KeptLines(lines, IF j = 1 THEN 0 ELSE ends[j - 1], ends[j]), LF))
              /\ rest # <<>> => split_out.statements[n + 1] = Strip(Join(rest, LF))

\* C27 witness: a text is split where one line ending with ';' ended a
\* statement and another, left inside an open literal, did not
C27_Witness ==
    /\ split_out.done
    /\ split_out.ends # <<>>
    /\ LET lines == SplitOn(sql_text, LF)
       IN  \E k \in DOMAIN lines :
              /\ IsKept(lines[k])
              /\ EndsWithSemicolon(Strip(lines[k]))
              /\ k \notin Range(split_out.ends)

\* A statement that failed with 'does not exist' while dropping a column
Benign(e) == e.out = E_DNE /\ e.kind = "DROP COLUMN"

\* C28: in the result of a phase, statements_completed counts the statements
\* that succeeded and the DROP COLUMN statements that failed with 'does not
\* exist', which leave no error entry; every other failed statement has its
\* entry in errors, in order, with its number, its message and its text.
C28_BenignDropColumn ==
    \A k \in DOMAIN status.phase_results :
        LET result == status.phase_results[k]
            ex == ExecutedOf(th[1].log, k)
            succeeded == SelectSeq(ex, LAMBDA e : e.out = "ok" \/ Benign(e))
            failed == SelectSeq(ex, LAMBDA e : e.out # "ok" /\ ~Benign(e))
        IN  /\ result.statements_completed = Len(succeeded)
            /\ result.errors = [j \in DOMAIN failed |->
                                  [statement |-> failed[j].stmt, error |-> failed[j].out,
                                   sql_preview |-> failed[j].kind]]

\* C28 witness: a phase result where a DROP COLUMN that failed with 'does not
\* exist' is counted as completed and another statement that failed with the
\* same message is among the errors
C28_Witness ==
    \E k \in DOMAIN status.phase_results :
        /\ \E j \in DOMAIN th[1].log : th[1].log[j].phase = k /\ Benign(th[1].log[j])
        /\ status.phase_results[k].statements_completed >= 1
        /\ \E j \in DOMAIN status.phase_results[k].errors :
              /\ status.phase_results[k].errors[j].error = E_DNE
              /\ status.phase_results[k].errors[j].sql_preview # "DROP COLUMN"

\* The job is inside run_phase: from the call of line 242 to the return
InRunPhase(t) ==
    \/ th[t].pc \in {"phase_name", "stmt"}
    \/ th[t].pc = "phase" /\ th[t].idx \notin th[t].skip

\* C29, as stated: no step of run_phase changes a field of the status record.
C29_RunPhaseLeavesStatus ==
    [][(InRunPhase(1) /\ th'[1] # th[1]) => status' = status]_vars

\* C29, amended: run_phase writes current_phase and current_phase_name, with
\* the number and the name of its phase and before its first statement, and
\* no other field of the status record; its statements change no field; and
\* the record changes in steps of the job only.
C29_RunPhaseWritesCurrentPhase ==
    [][/\ (InRunPhase(1) /\ th'[1] # th[1]) =>
             /\ \A f \in DOMAIN status \ {"current_phase", "current_phase_name"} :
                   status'[f] = status[f]
             /\ status'.current_phase \in {status.current_phase, th[1].idx}
             /\ status'.current_phase_name
                   \in {status.current_phase_name, PHASES[th[1].idx].name}
             /\ th[1].pc = "stmt" => status' = status
       /\ status' # status => th'[1] # th[1]]_vars

\* C29 witness: run_phase of phase 2 is at its statements, the status shows
\* phase 2 and its name, and the result of phase 1 is still there
C29_Witness ==
    /\ th[1].pc = "stmt"
    /\ th[1].idx = 2
    /\ status.current_phase = 2
    /\ status.current_phase_name = PHASES[2].name
    /\ Len(status.phase_results) = 1
    /\ th[1].log # <<>>

\* The naming rules in their declared order: the words a name may start
\* with, the words it may end with, and the type
NamingRules ==
    << [starts |-> {"is", "has"}, ends |-> {"flag"}, type |-> "BOOLEAN DEFAULT FALSE"],
       [starts |-> {}, ends |-> {"count", "runs", "starts"}, type |-> "INTEGER DEFAULT 0"],
       [starts |-> {}, ends |-> {"days", "position", "level"}, type |-> "INTEGER"],
       [starts |-> {}, ends |-> {"rate", "pct", "percentage"}, type |-> "NUMERIC(10,4)"],
       [starts |-> {}, ends |-> {"score", "rating", "figure"}, type |-> "NUMERIC(12,4)"],
       [starts |-> {}, ends |-> {"improvement", "change"}, type |-> "NUMERIC(10,4)"],
       [starts |-> {}, ends |-> {"bias", "error"}, type |-> "NUMERIC(10,4)"],
       [starts |-> {}, ends |-> {"advantage", "preference"}, type |-> "NUMERIC(10,4)"],
       [starts |-> {}, ends |-> {"time", "seconds"}, type |-> "NUMERIC(10,3)"],
       [starts |-> {}, ends |-> {"style", "type", "category"}, type |-> "VARCHAR(50)"] >>

\* The rules a name matches
Matching(name) ==
    {k \in DOMAIN NamingRules :
        /\ Len(name) >= 2
        /\ \/ name[1] \in NamingRules[k].starts
           \/ name[Len(name)] \in NamingRules[k].ends}

\* The least number of a non-empty set of numbers
Least(S) == CHOOSE k \in S : \A m \in S : k <= m

\* C30: the type guess_column_type returns is the type of the first ADD COLUMN
\* declaration of the column when there is one, whatever the name; otherwise
\* the type of the first naming rule, in declared order, that the name
\* matches, so that is_..._rate and is_..._count are boolean; otherwise
\* NUMERIC(12,4).
C30_TypePriority ==
    gc.done =>
        LET declared == {k \in DOMAIN gc.sql_content : gc.sql_content[k].name = gc.col_name}
            matching == Matching(gc.col_name)
            name == gc.col_name
        IN  /\ declared # {}
                  => gc.col_type = group1_upper(gc.sql_content[Least(declared)].type)
            /\ (declared = {} /\ matching # {})
                  => gc.col_type = NamingRules[Least(matching)].type
            /\ (declared = {} /\ matching = {}) => gc.col_type = "NUMERIC(12,4)"
            /\ (declared = {} /\ Len(name) >= 2 /\ name[1] = "is"
                    /\ name[Len(name)] \in {"rate", "count"})
                  => gc.col_type = "BOOLEAN DEFAULT FALSE"

\* C30 witness: is_rate, which the SQL text declares as a numeric(8,2) column
\* after another column, has got NUMERIC(8,2)
C30_Witness ==
    /\ gc.done
    /\ gc.col_name = <<"is", "rate">>
    /\ gc.sql_content = <<[name |-> <<"elo">>, type |-> "double precision"],
                          [name |-> <<"is", "rate">>, type |-> "numeric(8,2)"]>>
    /\ gc.col_type = "NUMERIC(8,2)"

\* C31: when the second rename of swap_tables fails after the first one
\* succeeded, no table is named race_training_dataset, the table the first
\* rename moved is race_training_dataset_old, and race_training_dataset_new
\* is still there.
C31_FailedSwapLeavesShadow ==
    [][(sw.pc = "rename_new" /\ sw'.pc = "done" /\ sw'.result # "swapped") =>
          /\ ~db'[ProdTable].exists
          /\ db'[OldTable] = sw.moved
          /\ db'[NewTable].exists]_vars

\* The lines of the statements, one statement after the other, trimmed
LinesOf(statements) ==
    LET ls == Flatten([j \in DOMAIN statements |-> SplitOn(statements[j], LF)])
    IN  [k \in DOMAIN ls |-> Strip(ls[k])]

\* C32: the lines of the returned statements, in the order of the list, are
\* the lines of the text that are neither blank nor '--' comment lines, in
\* the order of the text, each once (white space at the ends of a line
\* apart); no returned statement is empty.
C32_NothingLostOrDuplicated ==
    split_out.done =>
        LET lines == SplitOn(sql_text, LF)
            kept == KeptLines(lines, 0, Len(lines))
        IN  /\ LinesOf(split_out.statements) = [k \in DOMAIN kept |-> Strip(kept[k])]
            /\ \A j \in DOMAIN split_out.statements : split_out.statements[j] # <<>>

\* C32 witness: a text of a terminated statement and a line after it is split
\* into two statements, the second without a terminator
C32_Witness ==
    /\ split_out.done
    /\ Len(split_out.statements) = 2
    /\ Len(split_out.ends) = 1
    /\ ~EndsWithSemicolon(split_out.statements[2])

\* C33: in every phase result, statements_completed and the number of error
\* entries add up to statements_total, and the statement numbers of the error
\* entries are numbers of statements of the phase, strictly increasing; the
\* same holds of the counts of run_phase while it is at its statements.
C33_CountsAddUp ==
    /\ \A k \in DOMAIN status.phase_results :
          LET result == status.phase_results[k]
          IN  /\ result.statements_completed + Len(result.errors) = result.statements_total
              /\ \A j \in DOMAIN result.errors :
                    /\ result.errors[j].statement \in 1..result.statements_total
                    /\ j > 1 => result.errors[j - 1].statement < result.errors[j].statement
    /\ th[1].pc = "stmt" => th[1].completed + Len(th[1].errors) = th[1].i - 1
    /\ th[1].pc = "append" => th[1].completed + Len(th[1].errors) = th[1].n

\* C33 witness: the result of a phase of three statements of which the first
\* and the third failed
C33_Witness ==
    \E k \in DOMAIN status.phase_results :
        /\ status.phase_results[k].statements_total = 3
        /\ status.phase_results[k].statements_completed = 1
        /\ Len(status.phase_results[k].errors) = 2
        /\ status.phase_results[k].errors[1].statement = 1
        /\ status.phase_results[k].errors[2].statement = 3

\* What push_table returns for a local table without rows
Skipped(table_name) == [table |-> table_name, status |-> "skipped", reason |-> "empty table"]

\* C34: a call of push_table for a local table of zero rows is over in its
\* first step, with the 'skipped' result; it never connects, and the
\* destination keeps its rows and columns; no step changes the destination
\* for a local table without rows.
C34_EmptyPushSkipped ==
    [][/\ (Len(df.win_odds) = 0 /\ pt'.pc # "idle" /\ pt'.table_name = ProdTable)
             => /\ pt'.pc = "done"
                /\ pt'.result = Some(Skipped(ProdTable))
                /\ pg' = pg
       /\ pg' # pg => (Len(df.win_odds) > 0 /\ pt.local_rows > 0)]_vars

\* C34 witness: push_table has returned 'skipped' twice for an empty local
\* table and the destination holds the rows it had
C34_Witness ==
    /\ Len(df.win_odds) = 0
    /\ npushes = 2
    /\ pt.pc = "done"
    /\ pt.result = Some(Skipped(ProdTable))
    /\ pg.rows = <<OldRow, OldRow>>

\* C35: one job of run_sync pulls the tables of its list in order, one after
\* the other; the pull that fails is the last one: its step writes an error
\* that names the table and the job goes on to its end without a pull;
\* tables_done is a prefix of tables_total; the last-synced record of a table
\* is written only after the pull of this table succeeded.
C35_SyncStopsAtFirstFailure ==
    [][Accepted <= 1 =>
         LET r == sync_threads[1]
             succeeded == r.pc = "pull" /\ sync_threads'[1].pc = "save"
             failed == r.pc = "pull" /\ sync_threads'[1].pc = "finish"
         IN  /\ succeeded => /\ sync_status.tables_done = SubSeq(r.todo, 1, r.i - 1)
                              /\ sync_status'.tables_done = SubSeq(r.todo, 1, r.i)
             /\ failed => /\ sync_status'.error = Some(<<r.todo[r.i], E_PULL>>)
                           /\ sync_status'.tables_done = SubSeq(r.todo, 1, r.i - 1)
             /\ sync_status'.tables_done # sync_status.tables_done
                   => (succeeded \/ r.pc = "reset")
             /\ r.pc \in {"finish", "except", "finally"}
                   => sync_threads'[1].pc \notin {"begin", "pull", "save"}
             /\ IsPrefix(sync_status'.tables_done, sync_status'.tables_total)
             /\ sync_threads'[1].saved # r.saved
                   => /\ r.pc = "save"
                      /\ sync_threads'[1].saved = Append(r.saved, r.todo[r.i])
                      /\ sync_status.tables_done[Len(sync_status.tables_done)] = r.todo[r.i]]_vars

\* C35 witness: a job asked for races and race_training_dataset has pulled
\* races, written its last-synced record, failed on race_training_dataset
\* and is at its end
C35_Witness ==
    /\ Accepted = 1
    /\ sync_threads[1].pc = "finally"
    /\ sync_threads[1].todo = <<RacesTable, ProdTable>>
    /\ sync_threads[1].saved = <<RacesTable>>
    /\ sync_status.tables_done = <<RacesTable>>
    /\ sync_status.error # None

\* C36: every started job ends, by return or by exception, and gives up its
\* running indication. A thread of run_sync, run_push or run_elo_rebuild that
\* has been started comes to its end, and the running flag of its kind is
\* false at the step that ends it; a thread of run_rebuild comes to its end
\* with the state 'completed' or 'error' (unless another rebuild job, begun
\* meanwhile, has put its own state there: C1); and with no job of a kind
\* alive the indication is off, so that the handler lets the next request in.
EndsSync(j) == sync_threads[j].pc # "done" /\ sync_threads'[j].pc = "done"
EndsPush(j) == push_threads[j].pc # "done" /\ push_threads'[j].pc = "done"
EndsElo(j) == elo_threads[j].pc # "done" /\ elo_threads'[j].pc = "done"
EndsRebuild(t) == Alive(t) /\ th'[t].pc \in {"done", "raised"}

PastCheck(t) ==
    th[t].pc \notin {"none", "reset", "set_running", "set_started_at", "connect"}

C37_MissingTableStopsTheJob ==
    /\ [][Missing(ShowTables) # <<>> =>
             /\ db'[NewTable] = db[NewTable]
             /\ th'[1].log = <<>>
             /\ status'.phase_results = <<>>]_vars
    /\ []((Missing(ShowTables) # <<>> /\ PastCheck(1)) =>
             /\ th[1].pc \in {"except_state", "except_error", "except_completed_at", "raised"}
             /\ th[1].exc \in {E_MISSING, E_CONNECT}
             /\ th[1].pc = "raised" =>
                   /\ status.state = "error"
                   /\ status.error = Some(th[1].exc))

\* C37 witness: the job has ended in 'error' for a missing required table, in
\* a catalog that holds a shadow table, with a statement in the scripts
C37_Witness ==
    /\ th[1].pc = "raised"
    /\ th[1].exc = E_MISSING
    /\ status.state = "error"
    /\ ~db[RacesTable].exists
    /\ db[NewTable] = Table(NewTable, 0, 1, BaseCols)
    /\ Len(scripts[1]) = 1

\* C38: pull_table reads the whole source before it touches the local
\* database. The call that fails at the source (the connection, the count,
\* the column list or a fetch) is over in that step and leaves the catalog as
\* it was; the steps of pull_table that change the catalog are the DROP and
\* the CREATE, and they belong to a call whose read of the source has ended
\* well.
C38_FailedPullLeavesLocal ==
    [][/\ (pl'.calls = pl.calls + 1 /\ pl'.result = E_PULL) =>
             /\ pl'.pc = "done"
             /\ db' = db
       /\ (pl' # pl /\ db' # db) =>
             /\ pl.pc \in {"drop", "create"}
             /\ pl.result = ""
             /\ pl'.calls = pl.calls
             /\ \A n \in TableNames \ {pl.table_name} : db'[n] = db[n]]_vars

\* C38 witness: the pull of race_training_dataset has failed at the source and
\* the local table is the one of the first pull
C38_Witness ==
    /\ pl.pc = "done"
    /\ pl.result = E_PULL
    /\ pl.table_name = ProdTable
    /\ db[ProdTable] = Table(ProdTable, 0, 1, BaseCols)

\* C39: a status snapshot is not changed by later writes of the rebuild
\* thread. Once a reader holds the dictionary get_status returned, a step that
\* writes the status leaves what the reader sees in it as it was; the
\* phase_results it sees do not grow when the job appends a phase result.
C39_SnapshotUnchangedByWrites ==
    [][(snapshot.taken /\ status' # status) => snapshot'.status = snapshot.status]_vars

\* The scalar values of a snapshot do stay: only the list under
\* "phase_results" is shared with the job
ScalarsOfSnapshotStay ==
    [][(snapshot.taken /\ status' # status) =>
          [snapshot'.status EXCEPT !.phase_results = <<>>]
             = [snapshot.status EXCEPT !.phase_results = <<>>]]_vars

\* A reader holds a dictionary taken before the first phase result, and sees a
\* phase result in it
SnapshotHasGrown ==
    /\ snapshot.taken
    /\ snapshot.status.current_phase = 0
    /\ Len(snapshot.status.phase_results) >= 1

====
